---- MODULE Spec2Model ----
(***************************************************************************)
(* A model of pluggedinkit's clipboard facade (services/clipboard.py) and  *)
(* of the RAG response normalizer (services/rag.py).                       *)
(*                                                                         *)
(* A state is what one facade call leaves behind: the call and its         *)
(* arguments, the transport requests it issued, the envelopes it got back, *)
(* its outcome (a returned value or a raised error), and the store of the  *)
(* server the transport talks to.                                          *)
(***************************************************************************)
EXTENDS Integers, Sequences, FiniteSets, TLC

VARIABLES
  serverKind,   \* "faithful": the server keeps a store and answers from it;
                \* "any": the server answers with any envelope of the convention
  named,        \* the server's named slots: a mapping name -> value
  stack,        \* the server's stack slots, oldest first: [idx, value]
  call,         \* the last facade call: its operation, mode and arguments
  requests,     \* the transport requests that call issued, in order
  responses,    \* response.json() of each of them
  result,       \* how the call ended: Return(v) or Raise(exc, msg)
  justPushed,   \* after a pop: the entry the call right before it pushed,
                \* when that call was a push that returned; None otherwise
  setReturned,  \* name -> the entry the last set(name, ..) returned, while no
                \* later set(name), delete(name) or clear_all was sent
  ragData,      \* the decoded body handed to _transform_rag_response
  ragResponse   \* the RagResponse it produced

vars == <<serverKind, named, stack, call, requests, responses, result,
          justPushed, setReturned, ragData, ragResponse>>

(***************************************************************************)
(* Bounds of the model.                                                    *)
(***************************************************************************)
MaxIdx == 1
MaxTtl == 2
MaxDocs == 2
MaxSources == 3

Names == {"", "a", "b"}
Values == {"x", "y"}

(***************************************************************************)
(* Python and JSON values. Each value carries its type, so that True, 1    *)
(* and "1" stay different, and None differs from a missing key.            *)
(***************************************************************************)
None == [t |-> "null"]
JBool(b) == [t |-> "bool", b |-> b]
JInt(n) == [t |-> "int", n |-> n]
JStr(s) == [t |-> "str", s |-> s]
JObj(o) == [t |-> "obj", o |-> o]
JList(l) == [t |-> "list", l |-> l]

EmptyDict == [k \in {} |-> None]

\* bool(v): Python's truth value of v.
Truthy(v) ==
  CASE v.t = "bool" -> v.b
    [] v.t = "int" -> v.n # 0
    [] v.t = "str" -> v.s # ""
    [] v.t = "obj" -> DOMAIN v.o # {}
    [] v.t = "list" -> v.l # <<>>
    [] OTHER -> FALSE

\* d.get(k) and d.get(k, default) of a dict d.
DictGet(d, k) == IF k \in DOMAIN d THEN d[k] ELSE None
DictGetDefault(d, k, default) == IF k \in DOMAIN d THEN d[k] ELSE default

\* d[k] = v
DictSet(d, k, v) == [x \in DOMAIN d \cup {k} |-> IF x = k THEN v ELSE d[x]]

\* del d[k]
DictDel(d, k) == [x \in DOMAIN d \ {k} |-> d[x]]

\* How a call ends.
Return(v) == [kind |-> "return", v |-> v]
Raise(exc, msg) == [kind |-> "raise", exc |-> exc, msg |-> msg]
NoResult == [kind |-> "none"]

\* A transport request the facade hands to client.request.
Request(method, path, params, json) ==
  [kind |-> "request", method |-> method, path |-> path, params |-> params,
   json |-> json]
NoArg == [t |-> "nokwarg"]

(***************************************************************************)
(* pluggedinkit/types.py: the enum members and the two validated argument  *)
(* models the facade uses.                                                 *)
(***************************************************************************)
ClipboardEncoding == {"utf-8", "base64", "hex"}
ClipboardVisibility == {"private", "workspace", "public"}
ClipboardSource_SDK == "sdk"

\* ClipboardGetFilters(name=, idx=) and ClipboardDeleteRequest(name=, idx=):
\* exactly one of name and idx must be given.
ValidateNameOrIdx(name, idx) ==
  IF (name = None) = (idx = None)
  THEN Raise("ValidationError",
             JStr("Exactly one of name or idx must be provided"))
  ELSE [kind |-> "model", name |-> name, idx |-> idx]

ClipboardGetFilters(name, idx) == ValidateNameOrIdx(name, idx)

ClipboardDeleteRequest(name, idx) == ValidateNameOrIdx(name, idx)

\* ClipboardEntry(**entry): the typed record of a decoded entry object; a key
\* the object lacks reads as None.
ClipboardEntry(o) ==
  [t |-> "ClipboardEntry", name |-> DictGet(o, "name"),
   idx |-> DictGet(o, "idx"), value |-> DictGet(o, "value")]

\* ClipboardListResponse(**data).entries
ClipboardListResponse_entries(data) ==
  LET l == DictGetDefault(data, "entries", JList(<<>>)).l
  IN  JList([i \in 1..Len(l) |-> ClipboardEntry(l[i].o)])

(***************************************************************************)
(* services/clipboard.py: the shared helper functions.                     *)
(***************************************************************************)
_normalize_encoding(encoding) ==
  IF encoding \in ClipboardEncoding
  THEN Return(encoding)
  ELSE Raise("ValueError", JStr("not a valid ClipboardEncoding"))

_normalize_visibility(visibility) ==
  IF visibility \in ClipboardVisibility
  THEN Return(visibility)
  ELSE Raise("ValueError", JStr("not a valid ClipboardVisibility"))

\* A mutation: the TTL check lets 0 through.
_build_clipboard_payload_ttl0(value, name, content_type, encoding, visibility, created_by_tool, created_by_model, ttl_seconds) ==
  LET enc == _normalize_encoding(encoding)
      vis == _normalize_visibility(visibility)
      base == [value |-> value, contentType |-> JStr(content_type),
               encoding |-> JStr(enc.v), visibility |-> JStr(vis.v),
               source |-> JStr(ClipboardSource_SDK)]
      p1 == IF Truthy(name) THEN DictSet(base, "name", name) ELSE base
      p2 == IF Truthy(created_by_tool)
            THEN DictSet(p1, "createdByTool", created_by_tool) ELSE p1
      p3 == IF Truthy(created_by_model)
            THEN DictSet(p2, "createdByModel", created_by_model) ELSE p2
  IN  IF enc.kind = "raise" THEN enc
      ELSE IF vis.kind = "raise" THEN vis
      ELSE IF ttl_seconds # None /\ ttl_seconds.n < 0
      THEN Raise("ValueError",
                 JStr("ttl_seconds must be greater than 0 when provided"))
      ELSE [kind |-> "payload",
            body |-> IF ttl_seconds # None
                     THEN DictSet(p3, "ttlSeconds", ttl_seconds) ELSE p3]

\* A mutation: the name is included whenever it is not None.
_build_clipboard_payload_named(value, name, content_type, encoding, visibility, created_by_tool, created_by_model, ttl_seconds) ==
  LET enc == _normalize_encoding(encoding)
      vis == _normalize_visibility(visibility)
      base == [value |-> value, contentType |-> JStr(content_type),
               encoding |-> JStr(enc.v), visibility |-> JStr(vis.v),
               source |-> JStr(ClipboardSource_SDK)]
      p1 == IF name # None THEN DictSet(base, "name", name) ELSE base
      p2 == IF Truthy(created_by_tool)
            THEN DictSet(p1, "createdByTool", created_by_tool) ELSE p1
      p3 == IF Truthy(created_by_model)
            THEN DictSet(p2, "createdByModel", created_by_model) ELSE p2
  IN  IF enc.kind = "raise" THEN enc
      ELSE IF vis.kind = "raise" THEN vis
      ELSE IF ttl_seconds # None /\ ttl_seconds.n <= 0
      THEN Raise("ValueError",
                 JStr("ttl_seconds must be greater than 0 when provided"))
      ELSE [kind |-> "payload",
            body |-> IF ttl_seconds # None
                     THEN DictSet(p3, "ttlSeconds", ttl_seconds) ELSE p3]

_build_clipboard_payload(value, name, content_type, encoding, visibility, created_by_tool, created_by_model, ttl_seconds) ==
  LET enc == _normalize_encoding(encoding)
      vis == _normalize_visibility(visibility)
      base == [value |-> value, contentType |-> JStr(content_type),
               encoding |-> JStr(enc.v), visibility |-> JStr(vis.v),
               source |-> JStr(ClipboardSource_SDK)]
      p1 == IF Truthy(name) THEN DictSet(base, "name", name) ELSE base
      p2 == IF Truthy(created_by_tool)
            THEN DictSet(p1, "createdByTool", created_by_tool) ELSE p1
      p3 == IF Truthy(created_by_model)
            THEN DictSet(p2, "createdByModel", created_by_model) ELSE p2
  IN  IF enc.kind = "raise" THEN enc
      ELSE IF vis.kind = "raise" THEN vis
      ELSE IF ttl_seconds # None /\ ttl_seconds.n <= 0
      THEN Raise("ValueError",
                 JStr("ttl_seconds must be greater than 0 when provided"))
      ELSE [kind |-> "payload",
            body |-> IF ttl_seconds # None
                     THEN DictSet(p3, "ttlSeconds", ttl_seconds) ELSE p3]

\* A mutation: the server's error message is dropped.
_parse_list_response_nomsg(data) ==
  IF ~Truthy(DictGet(data, "success"))
  THEN Raise("PluggedInError", JStr("Failed to list clipboard entries"))
  ELSE Return(ClipboardListResponse_entries(data))

_parse_list_response(data) ==
  IF ~Truthy(DictGet(data, "success"))
  THEN Raise("PluggedInError",
             DictGetDefault(data, "error",
                            JStr("Failed to list clipboard entries")))
  ELSE Return(ClipboardListResponse_entries(data))

\* A mutation: the lenient mode never looks at the entry.
_parse_entry_response_blind(data, error_msg, raise_on_failure) ==
  IF ~raise_on_failure THEN Return(None)
  ELSE IF ~Truthy(DictGet(data, "success"))
  THEN Raise("PluggedInError", DictGetDefault(data, "error", JStr(error_msg)))
  ELSE IF "entry" \in DOMAIN data /\ Truthy(data["entry"])
  THEN Return(ClipboardEntry(data["entry"].o))
  ELSE Raise("PluggedInError", DictGetDefault(data, "error", JStr(error_msg)))

\* A mutation: a missing entry is never an error.
_parse_entry_response_lenient(data, error_msg, raise_on_failure) ==
  IF ~Truthy(DictGet(data, "success"))
  THEN IF raise_on_failure
       THEN Raise("PluggedInError",
                  DictGetDefault(data, "error", JStr(error_msg)))
       ELSE Return(None)
  ELSE IF "entry" \in DOMAIN data /\ Truthy(data["entry"])
  THEN Return(ClipboardEntry(data["entry"].o))
  ELSE Return(None)

_parse_entry_response(data, error_msg, raise_on_failure) ==
  IF ~Truthy(DictGet(data, "success"))
  THEN IF raise_on_failure
       THEN Raise("PluggedInError",
                  DictGetDefault(data, "error", JStr(error_msg)))
       ELSE Return(None)
  ELSE IF "entry" \in DOMAIN data /\ Truthy(data["entry"])
  THEN Return(ClipboardEntry(data["entry"].o))
  ELSE IF raise_on_failure
  THEN Raise("PluggedInError", DictGetDefault(data, "error", JStr(error_msg)))
  ELSE Return(None)

\* int(v) of a decoded JSON value.
PyInt(v) ==
  CASE v.t = "int" -> Return(v)
    [] v.t = "bool" -> Return(JInt(IF v.b THEN 1 ELSE 0))
    [] OTHER -> Raise("TypeError", JStr("int() argument must be a number"))

\* A mutation: a failure envelope raises, as in the other parsers.
_parse_delete_response_raising(data) ==
  IF ~Truthy(DictGet(data, "success"))
  THEN Raise("PluggedInError",
             DictGetDefault(data, "error", JStr("Failed to delete")))
  ELSE LET deleted == DictGetDefault(data, "deleted", JInt(0))
       IN  IF deleted # None THEN PyInt(deleted) ELSE Return(JInt(0))

\* A mutation: the count is returned as the envelope gives it, not as an int.
_parse_delete_response_raw(data) ==
  IF ~Truthy(DictGet(data, "success"))
  THEN Return(JInt(0))
  ELSE LET deleted == DictGetDefault(data, "deleted", JInt(0))
       IN  IF deleted # None THEN Return(deleted) ELSE Return(JInt(0))

_parse_delete_response(data) ==
  IF ~Truthy(DictGet(data, "success"))
  THEN Return(JInt(0))
  ELSE LET deleted == DictGetDefault(data, "deleted", JInt(0))
       IN  IF deleted # None THEN PyInt(deleted) ELSE Return(JInt(0))

\* A mutation: the fields are tested for truth, not against None.
_build_get_params_truthy(filters) ==
  LET p1 == IF Truthy(filters.name)
            THEN DictSet(EmptyDict, "name", filters.name) ELSE EmptyDict
  IN  IF Truthy(filters.idx)
      THEN DictSet(p1, "idx", JStr(ToString(filters.idx.n))) ELSE p1

_build_get_params(filters) ==
  LET p1 == IF filters.name # None
            THEN DictSet(EmptyDict, "name", filters.name) ELSE EmptyDict
  IN  IF filters.idx # None
      THEN DictSet(p1, "idx", JStr(ToString(filters.idx.n))) ELSE p1

_build_delete_payload(request) ==
  LET p1 == IF request.name # None
            THEN DictSet(EmptyDict, "name", request.name) ELSE EmptyDict
  IN  IF request.idx # None THEN DictSet(p1, "idx", request.idx) ELSE p1

\* ClearAllResult(deleted=, failed=) and its two properties.
ClearAllResult(deleted, failed) ==
  [t |-> "ClearAllResult", deleted |-> deleted, failed |-> failed]

\* deleted + failed, as Python adds them (True + 0 is 1; None + 0 raises).
ClearAllResult_total(r) ==
  CASE r.deleted.t = "int" -> Return(JInt(r.deleted.n + r.failed.n))
    [] r.deleted.t = "bool" ->
         Return(JInt((IF r.deleted.b THEN 1 ELSE 0) + r.failed.n))
    [] OTHER -> Raise("TypeError", JStr("unsupported operand type(s) for +"))

ClearAllResult_success(r) == r.failed.n = 0

(***************************************************************************)
(* services/clipboard.py: ClipboardService and AsyncClipboardService.      *)
(* Each method is two definitions: X_call, what it does up to and          *)
(* including client.request (a raised error, or the request it issues),    *)
(* and X_parse, what it makes of response.json().                          *)
(***************************************************************************)
ClipboardService_list_call == Request("GET", "/api/clipboard", NoArg, NoArg)

ClipboardService_list_parse(data) == _parse_list_response(data)

ClipboardService_get_call(name, idx) ==
  LET filters == ClipboardGetFilters(name, idx)
  IN  IF filters.kind = "raise" THEN filters
      ELSE Request("GET", "/api/clipboard", JObj(_build_get_params(filters)),
                   NoArg)

ClipboardService_get_parse(data) ==
  _parse_entry_response(data, "Failed to get clipboard entry", FALSE)

\* A mutation: set posts its payload to the push endpoint.
ClipboardService_set_call_to_push(name, value, content_type, encoding, visibility, created_by_tool, created_by_model, ttl_seconds) ==
  LET payload == _build_clipboard_payload(value, name, content_type, encoding,
                   visibility, created_by_tool, created_by_model, ttl_seconds)
  IN  IF payload.kind = "raise" THEN payload
      ELSE Request("POST", "/api/clipboard/push", NoArg, JObj(payload.body))

ClipboardService_set_call(name, value, content_type, encoding, visibility, created_by_tool, created_by_model, ttl_seconds) ==
  LET payload == _build_clipboard_payload(value, name, content_type, encoding,
                   visibility, created_by_tool, created_by_model, ttl_seconds)
  IN  IF payload.kind = "raise" THEN payload
      ELSE Request("POST", "/api/clipboard", NoArg, JObj(payload.body))

ClipboardService_set_parse(data) ==
  _parse_entry_response(data, "Failed to set clipboard entry", TRUE)

ClipboardService_push_call(value, content_type, encoding, visibility, created_by_tool, created_by_model, ttl_seconds) ==
  LET payload == _build_clipboard_payload(value, None, content_type, encoding,
                   visibility, created_by_tool, created_by_model, ttl_seconds)
  IN  IF payload.kind = "raise" THEN payload
      ELSE Request("POST", "/api/clipboard/push", NoArg, JObj(payload.body))

ClipboardService_push_parse(data) ==
  _parse_entry_response(data, "Failed to push to clipboard", TRUE)

\* A mutation: pop posts to the set endpoint.
ClipboardService_pop_call_wrongpath ==
  Request("POST", "/api/clipboard", NoArg, NoArg)

ClipboardService_pop_call ==
  Request("POST", "/api/clipboard/pop", NoArg, NoArg)

ClipboardService_pop_parse(data) ==
  _parse_entry_response(data, "Failed to pop from clipboard", FALSE)

\* A mutation: delete builds its body from the arguments without validating
\* them.
ClipboardService_delete_call_unvalidated(name, idx) ==
  Request("DELETE", "/api/clipboard", NoArg,
          JObj(_build_delete_payload([name |-> name, idx |-> idx])))

ClipboardService_delete_call(name, idx) ==
  LET request == ClipboardDeleteRequest(name, idx)
  IN  IF request.kind = "raise" THEN request
      ELSE Request("DELETE", "/api/clipboard", NoArg,
                   JObj(_build_delete_payload(request)))

ClipboardService_delete_parse(data) == _parse_delete_response(data)

\* A mutation: the bulk flag is left out of the body.
ClipboardService_clear_all_call_noflag ==
  Request("DELETE", "/api/clipboard", NoArg, JObj(EmptyDict))

ClipboardService_clear_all_call ==
  Request("DELETE", "/api/clipboard", NoArg, JObj([clearAll |-> JBool(TRUE)]))

\* A mutation: the count is read from a key the envelope does not have.
ClipboardService_clear_all_parse_wrongkey(data) ==
  IF ~Truthy(DictGet(data, "success"))
  THEN Raise("PluggedInError",
             DictGetDefault(data, "error", JStr("Failed to clear clipboard")))
  ELSE Return(ClearAllResult(DictGetDefault(data, "count", JInt(0)), JInt(0)))

ClipboardService_clear_all_parse(data) ==
  IF ~Truthy(DictGet(data, "success"))
  THEN Raise("PluggedInError",
             DictGetDefault(data, "error", JStr("Failed to clear clipboard")))
  ELSE Return(ClearAllResult(DictGetDefault(data, "deleted", JInt(0)), JInt(0)))

AsyncClipboardService_list_call == Request("GET", "/api/clipboard", NoArg, NoArg)

AsyncClipboardService_list_parse(data) == _parse_list_response(data)

AsyncClipboardService_get_call(name, idx) ==
  LET filters == ClipboardGetFilters(name, idx)
  IN  IF filters.kind = "raise" THEN filters
      ELSE Request("GET", "/api/clipboard", JObj(_build_get_params(filters)),
                   NoArg)

AsyncClipboardService_get_parse(data) ==
  _parse_entry_response(data, "Failed to get clipboard entry", FALSE)

AsyncClipboardService_set_call(name, value, content_type, encoding, visibility, created_by_tool, created_by_model, ttl_seconds) ==
  LET payload == _build_clipboard_payload(value, name, content_type, encoding,
                   visibility, created_by_tool, created_by_model, ttl_seconds)
  IN  IF payload.kind = "raise" THEN payload
      ELSE Request("POST", "/api/clipboard", NoArg, JObj(payload.body))

AsyncClipboardService_set_parse(data) ==
  _parse_entry_response(data, "Failed to set clipboard entry", TRUE)

AsyncClipboardService_push_call(value, content_type, encoding, visibility, created_by_tool, created_by_model, ttl_seconds) ==
  LET payload == _build_clipboard_payload(value, None, content_type, encoding,
                   visibility, created_by_tool, created_by_model, ttl_seconds)
  IN  IF payload.kind = "raise" THEN payload
      ELSE Request("POST", "/api/clipboard/push", NoArg, JObj(payload.body))

AsyncClipboardService_push_parse(data) ==
  _parse_entry_response(data, "Failed to push to clipboard", TRUE)

AsyncClipboardService_pop_call ==
  Request("POST", "/api/clipboard/pop", NoArg, NoArg)

\* A mutation: the asynchronous pop parses strictly.
AsyncClipboardService_pop_parse_strict(data) ==
  _parse_entry_response(data, "Failed to pop from clipboard", TRUE)

AsyncClipboardService_pop_parse(data) ==
  _parse_entry_response(data, "Failed to pop from clipboard", FALSE)

AsyncClipboardService_delete_call(name, idx) ==
  LET request == ClipboardDeleteRequest(name, idx)
  IN  IF request.kind = "raise" THEN request
      ELSE Request("DELETE", "/api/clipboard", NoArg,
                   JObj(_build_delete_payload(request)))

AsyncClipboardService_delete_parse(data) == _parse_delete_response(data)

AsyncClipboardService_clear_all_call ==
  Request("DELETE", "/api/clipboard", NoArg, JObj([clearAll |-> JBool(TRUE)]))

AsyncClipboardService_clear_all_parse(data) ==
  IF ~Truthy(DictGet(data, "success"))
  THEN Raise("PluggedInError",
             DictGetDefault(data, "error", JStr("Failed to clear clipboard")))
  ELSE Return(ClearAllResult(DictGetDefault(data, "deleted", JInt(0)), JInt(0)))

(***************************************************************************)
(* The server behind the transport client (spec.md, External Interfaces):  *)
(* named slots are upserted by name, stack slots get the next index and    *)
(* leave last in first out. Where the envelope convention leaves the shape *)
(* of an answer open (an absent entry, a delete count given as a number or *)
(* as a flag), the server may send any of the shapes.                      *)
(***************************************************************************)
NameOrder == <<"", "a", "b">>

NamedEntryObj(n) == JObj([name |-> JStr(n), idx |-> None, value |-> JStr(named[n])])

StackEntryObj(e) == JObj([idx |-> JInt(e.idx), value |-> JStr(e.value)])

\* The index the server gives the next pushed entry.
NextIdx == IF stack = <<>> THEN 0 ELSE stack[Len(stack)].idx + 1

StoreSize == Cardinality(DOMAIN named) + Len(stack)

Outcome(env, n, s) == [env |-> env, named |-> n, stack |-> s]

NotFoundEnvelopes ==
  { [success |-> JBool(FALSE), error |-> JStr("Clipboard entry not found")],
    [success |-> JBool(FALSE)],
    [success |-> JBool(TRUE), entry |-> None],
    [success |-> JBool(TRUE)] }

DeletedEnvelopes ==
  { [success |-> JBool(TRUE), deleted |-> JInt(1)],
    [success |-> JBool(TRUE), deleted |-> JBool(TRUE)] }

NothingDeletedEnvelopes ==
  { [success |-> JBool(FALSE), error |-> JStr("Clipboard entry not found")],
    [success |-> JBool(TRUE), deleted |-> JInt(0)],
    [success |-> JBool(TRUE), deleted |-> JBool(FALSE)],
    [success |-> JBool(TRUE), deleted |-> None],
    [success |-> JBool(TRUE)] }

Rejected(msg) == [success |-> JBool(FALSE), error |-> JStr(msg)]

\* The position in the stack of the entry with index i, or 0.
StackPos(i) ==
  IF \E k \in 1..Len(stack) : stack[k].idx = i
  THEN CHOOSE k \in 1..Len(stack) : stack[k].idx = i
  ELSE 0

\* The stack index a query parameter spells, or -1.
ParseIdx(str) ==
  IF \E i \in 0..(MaxIdx + 1) : ToString(i) = str
  THEN CHOOSE i \in 0..(MaxIdx + 1) : ToString(i) = str
  ELSE -1

RemoveAt(seq, k) == [j \in 1..(Len(seq) - 1) |-> IF j < k THEN seq[j] ELSE seq[j + 1]]

ServerList ==
  LET ns == SelectSeq(NameOrder, LAMBDA n : n \in DOMAIN named)
      es == [i \in 1..Len(ns) |-> NamedEntryObj(ns[i])]
            \o [i \in 1..Len(stack) |-> StackEntryObj(stack[i])]
  IN  {Outcome([success |-> JBool(TRUE), entries |-> JList(es)], named, stack)}

ServerGet(params) ==
  IF "name" \in DOMAIN params
  THEN IF params["name"].s \in DOMAIN named
       THEN {Outcome([success |-> JBool(TRUE),
                      entry |-> NamedEntryObj(params["name"].s)], named, stack)}
       ELSE {Outcome(e, named, stack) : e \in NotFoundEnvelopes}
  ELSE LET k == StackPos(ParseIdx(params["idx"].s))
       IN  IF k # 0
           THEN {Outcome([success |-> JBool(TRUE),
                          entry |-> StackEntryObj(stack[k])], named, stack)}
           ELSE {Outcome(e, named, stack) : e \in NotFoundEnvelopes}

ServerSet(json) ==
  IF json = NoArg \/ "name" \notin DOMAIN json.o
  THEN {Outcome(Rejected("name is required"), named, stack)}
  ELSE LET n == json.o["name"].s
           v == json.o["value"].s
       IN  {Outcome([success |-> JBool(TRUE),
                     entry |-> JObj([name |-> JStr(n), idx |-> None,
                                     value |-> JStr(v)])],
                    DictSet(named, n, v), stack)}

ServerPush(json) ==
  IF json = NoArg
  THEN {Outcome(Rejected("value is required"), named, stack)}
  ELSE LET e == [idx |-> NextIdx, value |-> json.o["value"].s]
       IN  {Outcome([success |-> JBool(TRUE), entry |-> StackEntryObj(e)],
                    named, Append(stack, e))}

ServerPop ==
  IF stack = <<>>
  THEN {Outcome(e, named, stack) : e \in NotFoundEnvelopes}
  ELSE {Outcome([success |-> JBool(TRUE),
                 entry |-> StackEntryObj(stack[Len(stack)])],
                named, SubSeq(stack, 1, Len(stack) - 1))}

ServerDelete(json) ==
  IF json = NoArg THEN {Outcome(Rejected("name or idx is required"), named, stack)}
  ELSE IF "clearAll" \in DOMAIN json.o /\ Truthy(json.o["clearAll"])
  THEN {Outcome([success |-> JBool(TRUE), deleted |-> JInt(StoreSize)],
                EmptyDict, <<>>)}
  ELSE IF "name" \in DOMAIN json.o
  THEN IF json.o["name"].s \in DOMAIN named
       THEN {Outcome(e, DictDel(named, json.o["name"].s), stack) :
               e \in DeletedEnvelopes}
       ELSE {Outcome(e, named, stack) : e \in NothingDeletedEnvelopes}
  ELSE IF "idx" \in DOMAIN json.o
  THEN LET k == StackPos(json.o["idx"].n)
       IN  IF k # 0
           THEN {Outcome(e, named, RemoveAt(stack, k)) : e \in DeletedEnvelopes}
           ELSE {Outcome(e, named, stack) : e \in NothingDeletedEnvelopes}
  ELSE {Outcome(Rejected("name or idx is required"), named, stack)}

FaithfulOutcomes(req) ==
  CASE req.method = "GET" /\ req.path = "/api/clipboard" ->
         IF req.params = NoArg \/ req.params.o = EmptyDict
         THEN ServerList ELSE ServerGet(req.params.o)
    [] req.method = "POST" /\ req.path = "/api/clipboard" -> ServerSet(req.json)
    [] req.method = "POST" /\ req.path = "/api/clipboard/push" ->
         ServerPush(req.json)
    [] req.method = "POST" /\ req.path = "/api/clipboard/pop" -> ServerPop
    [] req.method = "DELETE" /\ req.path = "/api/clipboard" ->
         ServerDelete(req.json)
    [] OTHER -> {Outcome(Rejected("not found"), named, stack)}

(***************************************************************************)
(* The envelopes of the convention {success, entry, entries, deleted,      *)
(* error}, each key present or not, for a server whose answers are not     *)
(* tied to a store.                                                        *)
(***************************************************************************)
WithKey(ds, k, vals) == ds \cup {DictSet(d, k, v) : d \in ds, v \in vals}

SampleEntries ==
  { <<>>, <<JObj([name |-> JStr("a"), idx |-> None, value |-> JStr("x")])>> }

AnyEnvelopes(req) ==
  LET base == WithKey(WithKey({EmptyDict}, "success",
                              {None, JBool(FALSE), JBool(TRUE)}),
                      "error", {None, JStr("boom")})
  IN  IF req.method = "DELETE"
      THEN WithKey(base, "deleted",
                   {None, JBool(FALSE), JBool(TRUE), JInt(0), JInt(1), JInt(2)})
      ELSE IF req.method = "GET" /\ req.params = NoArg
      THEN {DictSet(d, "entries", JList(l)) : d \in base, l \in SampleEntries}
      ELSE WithKey(base, "entry",
                   {None, JObj(EmptyDict),
                    JObj([idx |-> JInt(0), value |-> JStr("x")])})

ServerOutcomes(req) ==
  IF serverKind = "faithful"
  THEN FaithfulOutcomes(req)
  ELSE {Outcome(e, named, stack) : e \in AnyEnvelopes(req)}

(***************************************************************************)
(* The arguments the calls are made with.                                  *)
(***************************************************************************)
Modes == {"sync", "async"}
NameArgs == {None} \cup {JStr(n) : n \in Names}
IdxArgs == {None} \cup {JInt(i) : i \in 0..MaxIdx}
TtlArgs == {None} \cup {JInt(i) : i \in (0 - MaxTtl)..MaxTtl}
EncodingArgs == {"utf-8", "latin-1"}
VisibilityArgs == {"private"}
ToolArgs == {None, JStr("planner")}
ModelArgs == {None}
DefaultContentType == "text/plain"

NoCall == [op |-> "none"]

(***************************************************************************)
(* One facade call: the method runs up to client.request; if it raised,    *)
(* nothing was sent; otherwise the server answers the request and the      *)
(* method parses the answer. A server of kind "any" is asked once.         *)
(***************************************************************************)
Exchange(c, plan) ==
  /\ serverKind = "any" => call = NoCall
  /\ call' = c
  /\ justPushed' = IF c.op = "pop" /\ call.op = "push" /\ result.kind = "return"
                   THEN result.v ELSE None
  /\ IF plan.kind = "raise"
     THEN /\ requests' = <<>>
          /\ responses' = <<>>
          /\ UNCHANGED <<named, stack>>
     ELSE \E out \in ServerOutcomes(plan) :
            /\ requests' = <<plan>>
            /\ responses' = <<out.env>>
            /\ named' = out.named
            /\ stack' = out.stack
  /\ UNCHANGED <<serverKind, ragData, ragResponse>>

List(mode) ==
  LET plan == IF mode = "sync" THEN ClipboardService_list_call
              ELSE AsyncClipboardService_list_call
  IN  /\ Exchange([op |-> "list", mode |-> mode], plan)
      /\ result' = IF mode = "sync"
                   THEN ClipboardService_list_parse(responses'[1])
                   ELSE AsyncClipboardService_list_parse(responses'[1])
      /\ UNCHANGED setReturned

Get(mode, name, idx) ==
  LET plan == IF mode = "sync" THEN ClipboardService_get_call(name, idx)
              ELSE AsyncClipboardService_get_call(name, idx)
  IN  /\ Exchange([op |-> "get", mode |-> mode, name |-> name, idx |-> idx],
                  plan)
      /\ result' = IF plan.kind = "raise" THEN plan
                   ELSE IF mode = "sync"
                   THEN ClipboardService_get_parse(responses'[1])
                   ELSE AsyncClipboardService_get_parse(responses'[1])
      /\ UNCHANGED setReturned

Set(mode, name, value, encoding, visibility, tool, model, ttl) ==
  LET plan == IF mode = "sync"
              THEN ClipboardService_set_call(JStr(name), JStr(value),
                     DefaultContentType, encoding, visibility, tool, model, ttl)
              ELSE AsyncClipboardService_set_call(JStr(name), JStr(value),
                     DefaultContentType, encoding, visibility, tool, model, ttl)
  IN  /\ Exchange([op |-> "set", mode |-> mode, name |-> JStr(name),
                   value |-> JStr(value), encoding |-> encoding,
                   visibility |-> visibility, tool |-> tool, model |-> model,
                   ttl |-> ttl], plan)
      /\ result' = IF plan.kind = "raise" THEN plan
                   ELSE IF mode = "sync"
                   THEN ClipboardService_set_parse(responses'[1])
                   ELSE AsyncClipboardService_set_parse(responses'[1])
      /\ setReturned' =
           IF plan.kind = "raise" THEN setReturned
           ELSE IF result'.kind = "return"
           THEN DictSet(setReturned, name, result'.v)
           ELSE DictDel(setReturned, name)

Push(mode, value, encoding, visibility, tool, model, ttl) ==
  LET plan == IF mode = "sync"
              THEN ClipboardService_push_call(JStr(value), DefaultContentType,
                     encoding, visibility, tool, model, ttl)
              ELSE AsyncClipboardService_push_call(JStr(value),
                     DefaultContentType, encoding, visibility, tool, model, ttl)
  IN  /\ NextIdx <= MaxIdx
      /\ Exchange([op |-> "push", mode |-> mode, value |-> JStr(value),
                   encoding |-> encoding, visibility |-> visibility,
                   tool |-> tool, model |-> model, ttl |-> ttl], plan)
      /\ result' = IF plan.kind = "raise" THEN plan
                   ELSE IF mode = "sync"
                   THEN ClipboardService_push_parse(responses'[1])
                   ELSE AsyncClipboardService_push_parse(responses'[1])
      /\ UNCHANGED setReturned

Pop(mode) ==
  LET plan == IF mode = "sync" THEN ClipboardService_pop_call
              ELSE AsyncClipboardService_pop_call
  IN  /\ Exchange([op |-> "pop", mode |-> mode], plan)
      /\ result' = IF mode = "sync"
                   THEN ClipboardService_pop_parse(responses'[1])
                   ELSE AsyncClipboardService_pop_parse(responses'[1])
      /\ UNCHANGED setReturned

Delete(mode, name, idx) ==
  LET plan == IF mode = "sync" THEN ClipboardService_delete_call(name, idx)
              ELSE AsyncClipboardService_delete_call(name, idx)
  IN  /\ Exchange([op |-> "delete", mode |-> mode, name |-> name,
                   idx |-> idx], plan)
      /\ result' = IF plan.kind = "raise" THEN plan
                   ELSE IF mode = "sync"
                   THEN ClipboardService_delete_parse(responses'[1])
                   ELSE AsyncClipboardService_delete_parse(responses'[1])
      /\ setReturned' =
           IF plan.kind = "raise" \/ name = None THEN setReturned
           ELSE DictDel(setReturned, name.s)

ClearAll(mode) ==
  LET plan == IF mode = "sync" THEN ClipboardService_clear_all_call
              ELSE AsyncClipboardService_clear_all_call
  IN  /\ Exchange([op |-> "clear_all", mode |-> mode], plan)
      /\ result' = IF mode = "sync"
                   THEN ClipboardService_clear_all_parse(responses'[1])
                   ELSE AsyncClipboardService_clear_all_parse(responses'[1])
      /\ setReturned' = EmptyDict

InitClipboard ==
  /\ named = EmptyDict
  /\ stack = <<>>
  /\ call = NoCall
  /\ justPushed = None
  /\ requests = <<>>
  /\ responses = <<>>
  /\ result = NoResult
  /\ setReturned = EmptyDict

InitRagIdle ==
  /\ ragData = None
  /\ ragResponse = NoResult

Init ==
  /\ serverKind = "faithful"
  /\ InitClipboard
  /\ InitRagIdle

InitEnv ==
  /\ serverKind = "any"
  /\ InitClipboard
  /\ InitRagIdle

\* Any one call, with encoding, TTL and attribution arguments from the given
\* sets.
Calls(encodings, ttls, tools) ==
  \/ \E mode \in Modes : List(mode)
  \/ \E mode \in Modes, name \in NameArgs, idx \in IdxArgs : Get(mode, name, idx)
  \/ \E mode \in Modes, name \in Names, value \in Values,
        encoding \in encodings, visibility \in VisibilityArgs,
        tool \in tools, model \in ModelArgs, ttl \in ttls :
       Set(mode, name, value, encoding, visibility, tool, model, ttl)
  \/ \E mode \in Modes, value \in Values, encoding \in encodings,
        visibility \in VisibilityArgs, tool \in tools, model \in ModelArgs,
        ttl \in ttls :
       Push(mode, value, encoding, visibility, tool, model, ttl)
  \/ \E mode \in Modes : Pop(mode)
  \/ \E mode \in Modes, name \in NameArgs, idx \in IdxArgs :
       Delete(mode, name, idx)
  \/ \E mode \in Modes : ClearAll(mode)

\* Calls one after the other against the server's store; the arguments that
\* make set and push raise before the request are left to NextEnv.
Next == Calls({"utf-8"}, {None}, {None})

\* A call with any arguments. Against the server of kind "any" Exchange allows
\* one call: the facade keeps nothing between calls and that server's answers
\* depend on nothing, so one call is every call.
NextEnv == Calls(EncodingArgs, TtlArgs, ToolArgs)

\* The facade against a server that keeps the store.
Spec == Init /\ [][Next]_vars

\* The facade against a server that may answer with any envelope.
SpecEnv == InitEnv /\ [][NextEnv]_vars

(***************************************************************************)
(* services/rag.py: the response normalizer of RagService and of           *)
(* AsyncRagService, and the types it builds (pluggedinkit/types.py).       *)
(***************************************************************************)
RagSourceDocument(id, name) == [t |-> "RagSourceDocument", id |-> id, name |-> name]

RagResponse(success, answer, sources, document_ids, documents, error) ==
  [t |-> "RagResponse", success |-> success, answer |-> answer,
   sources |-> sources, document_ids |-> document_ids,
   documents |-> documents, error |-> error]

\* a or b, as Python evaluates it.
PyOr(a, b) == IF Truthy(a) THEN a ELSE b

\* A mutation: the placeholder name counts from 0.
RagDocuments_zero_based(document_ids, sources) ==
  JList([i \in 1..Len(document_ids.l) |->
           LET index == i - 1
           IN  RagSourceDocument(
                 document_ids.l[index + 1],
                 IF index < Len(sources.l) THEN sources.l[index + 1]
                 ELSE JStr("Document " \o ToString(index)))])

\* A mutation: the ids are paired with zip(document_ids, sources), which
\* stops at the shorter list.
RagDocuments_zip_truncating(document_ids, sources) ==
  LET n == IF Len(document_ids.l) < Len(sources.l)
           THEN Len(document_ids.l) ELSE Len(sources.l)
  IN  JList([i \in 1..n |-> RagSourceDocument(document_ids.l[i], sources.l[i])])

\* The list comprehension over enumerate(document_ids).
RagDocuments(document_ids, sources) ==
  JList([i \in 1..Len(document_ids.l) |->
           LET index == i - 1
           IN  RagSourceDocument(
                 document_ids.l[index + 1],
                 IF index < Len(sources.l) THEN sources.l[index + 1]
                 ELSE JStr("Document " \o ToString(index + 1)))])

\* A mutation: the alias response is consulted before answer.
RagService_transform_rag_response_swapped(data) ==
  IF data.t = "str"
  THEN RagResponse(JBool(TRUE), data, JList(<<>>), JList(<<>>), JList(<<>>),
                   None)
  ELSE IF data.t # "obj"
  THEN RagResponse(JBool(FALSE), None, JList(<<>>), JList(<<>>), JList(<<>>),
                   JStr("Unexpected response format from RAG query endpoint"))
  ELSE LET answer == PyOr(DictGet(data.o, "response"),
                       PyOr(DictGet(data.o, "answer"),
                         PyOr(DictGet(data.o, "results"),
                           PyOr(DictGet(data.o, "message"), JStr("")))))
           sources == PyOr(DictGet(data.o, "sources"), JList(<<>>))
           document_ids == PyOr(DictGet(data.o, "documentIds"),
                             PyOr(DictGet(data.o, "document_ids"), JList(<<>>)))
       IN  RagResponse(DictGetDefault(data.o, "success", JBool(TRUE)), answer,
                       sources, document_ids,
                       RagDocuments(document_ids, sources),
                       DictGet(data.o, "error"))

\* A mutation: whatever is not a mapping is taken for a plain-text answer.
RagService_transform_rag_response_stringify(data) ==
  IF data.t # "obj"
  THEN RagResponse(JBool(TRUE), data, JList(<<>>), JList(<<>>), JList(<<>>),
                   None)
  ELSE LET answer == PyOr(DictGet(data.o, "answer"),
                       PyOr(DictGet(data.o, "response"),
                         PyOr(DictGet(data.o, "results"),
                           PyOr(DictGet(data.o, "message"), JStr("")))))
           sources == PyOr(DictGet(data.o, "sources"), JList(<<>>))
           document_ids == PyOr(DictGet(data.o, "documentIds"),
                             PyOr(DictGet(data.o, "document_ids"), JList(<<>>)))
       IN  RagResponse(DictGetDefault(data.o, "success", JBool(TRUE)), answer,
                       sources, document_ids,
                       RagDocuments(document_ids, sources),
                       DictGet(data.o, "error"))

RagService_transform_rag_response(data) ==
  IF data.t = "str"
  THEN RagResponse(JBool(TRUE), data, JList(<<>>), JList(<<>>), JList(<<>>),
                   None)
  ELSE IF data.t # "obj"
  THEN RagResponse(JBool(FALSE), None, JList(<<>>), JList(<<>>), JList(<<>>),
                   JStr("Unexpected response format from RAG query endpoint"))
  ELSE LET answer == PyOr(DictGet(data.o, "answer"),
                       PyOr(DictGet(data.o, "response"),
                         PyOr(DictGet(data.o, "results"),
                           PyOr(DictGet(data.o, "message"), JStr("")))))
           sources == PyOr(DictGet(data.o, "sources"), JList(<<>>))
           document_ids == PyOr(DictGet(data.o, "documentIds"),
                             PyOr(DictGet(data.o, "document_ids"), JList(<<>>)))
       IN  RagResponse(DictGetDefault(data.o, "success", JBool(TRUE)), answer,
                       sources, document_ids,
                       RagDocuments(document_ids, sources),
                       DictGet(data.o, "error"))

AsyncRagService_transform_rag_response(data) ==
  IF data.t = "str"
  THEN RagResponse(JBool(TRUE), data, JList(<<>>), JList(<<>>), JList(<<>>),
                   None)
  ELSE IF data.t # "obj"
  THEN RagResponse(JBool(FALSE), None, JList(<<>>), JList(<<>>), JList(<<>>),
                   JStr("Unexpected response format from RAG query endpoint"))
  ELSE LET answer == PyOr(DictGet(data.o, "answer"),
                       PyOr(DictGet(data.o, "response"),
                         PyOr(DictGet(data.o, "results"),
                           PyOr(DictGet(data.o, "message"), JStr("")))))
           sources == PyOr(DictGet(data.o, "sources"), JList(<<>>))
           document_ids == PyOr(DictGet(data.o, "documentIds"),
                             PyOr(DictGet(data.o, "document_ids"), JList(<<>>)))
       IN  RagResponse(DictGetDefault(data.o, "success", JBool(TRUE)), answer,
                       sources, document_ids,
                       RagDocuments(document_ids, sources),
                       DictGet(data.o, "error"))

(***************************************************************************)
(* The decoded bodies the normalizer is given: bare strings, values that   *)
(* are neither a string nor a mapping, and mappings with each of the keys  *)
(* present, null or missing.                                               *)
(***************************************************************************)
SeqsUpTo(S, n) == UNION {[1..k -> S] : k \in 0..n}

SourceLists == {JList(l) : l \in SeqsUpTo({JStr("s1"), JStr("s2")}, MaxSources)}

IdLists == {JList(l) : l \in SeqsUpTo({JStr("d1"), JStr("d2")}, MaxDocs)}

RagMappings ==
  WithKey(WithKey(WithKey(WithKey({EmptyDict},
    "answer", {JStr("x")}),
    "sources", {None} \cup SourceLists),
    "documentIds", {None} \cup IdLists),
    "document_ids", {None} \cup IdLists)

\* Mappings that spell the answer under each alias, with the value present,
\* empty, null or missing, and that carry the server's success and error.
RagAliasMappings ==
  WithKey(WithKey(WithKey(WithKey(WithKey(WithKey({EmptyDict},
    "answer", {None, JStr(""), JStr("a")}),
    "response", {JStr(""), JStr("r")}),
    "results", {JStr("s")}),
    "message", {JStr("m")}),
    "success", {JBool(TRUE), JBool(FALSE)}),
    "error", {JStr(""), JStr("boom")})

\* Decoded bodies that are neither a string nor a mapping.
RagOtherValues ==
  {JInt(42), None, JBool(TRUE), JBool(FALSE), JList(<<>>), JList(<<JStr("d1")>>)}

RagStrings == {JStr("plain answer"), JStr("")}

RagInputs ==
  RagStrings \cup RagOtherValues
    \cup {JObj(m) : m \in RagMappings \cup RagAliasMappings}

InitRag ==
  /\ serverKind = "faithful"
  /\ InitClipboard
  /\ ragData \in RagInputs
  /\ ragResponse = NoResult

Transform ==
  /\ ragResponse = NoResult
  /\ ragResponse' = RagService_transform_rag_response(ragData)
  /\ UNCHANGED <<serverKind, named, stack, call, requests, responses, result,
                 justPushed, setReturned, ragData>>

AsyncTransform ==
  /\ ragResponse = NoResult
  /\ ragResponse' = AsyncRagService_transform_rag_response(ragData)
  /\ UNCHANGED <<serverKind, named, stack, call, requests, responses, result,
                 justPushed, setReturned, ragData>>

NextRag == Transform \/ AsyncTransform

\* The normalizer applied to each decoded body.
SpecRag == InitRag /\ [][NextRag]_vars

(***************************************************************************)
(* services/rag.py: query and the operations derived from it. The          *)
(* transport is pluggedinkit/client.py: client.request either raises or    *)
(* returns a response whose body decodes as JSON or does not.              *)
(***************************************************************************)
JsonBody(v) == [t |-> "json", v |-> v]
RawBody(s) == [t |-> "raw", s |-> s]
HttpResponse(body) == [kind |-> "response", body |-> body]

\* documents[:limit] of a list.
PySliceTo(l, limit) ==
  LET stop == IF limit >= 0
              THEN (IF limit < Len(l) THEN limit ELSE Len(l))
              ELSE (IF Len(l) + limit > 0 THEN Len(l) + limit ELSE 0)
  IN  SubSeq(l, 1, stop)

\* str(exc) of an exception raised with one message.
PyStr(exc) == exc.msg

\* A mutation: a body that does not decode is dropped instead of being read
\* as text.
RagService_parse_rag_response_nofallback(response) ==
  IF response.body.t = "json" THEN response.body.v ELSE None

\* RagService._parse_rag_response: response.json(), or response.text when the
\* body does not decode.
RagService_parse_rag_response(response) ==
  IF response.body.t = "json" THEN response.body.v ELSE JStr(response.body.s)

\* RagService.query: the request it sends, and what it makes of the outcome of
\* client.request (a response, or the exception the transport raised).
RagService_query_call(query, include_metadata) ==
  Request("POST", "/api/rag/query", NoArg,
          JObj([query |-> JStr(query),
                includeMetadata |-> JBool(include_metadata)]))

RagService_query(out) ==
  IF out.kind = "raise" THEN out
  ELSE Return(RagService_transform_rag_response(RagService_parse_rag_response(out)))

RagService_ask_question_call(query) == RagService_query_call(query, FALSE)

\* A mutation: an empty answer is returned instead of raising.
RagService_ask_question_lenient(out) ==
  LET r == RagService_query(out)
  IN  IF r.kind = "raise" THEN r
      ELSE IF ~Truthy(r.v.success)
      THEN Raise("PluggedInError",
                 PyOr(r.v.error, JStr("No answer received from knowledge base")))
      ELSE Return(r.v.answer)

RagService_ask_question(out) ==
  LET r == RagService_query(out)
  IN  IF r.kind = "raise" THEN r
      ELSE IF ~Truthy(r.v.success) \/ ~Truthy(r.v.answer)
      THEN Raise("PluggedInError",
                 PyOr(r.v.error, JStr("No answer received from knowledge base")))
      ELSE Return(r.v.answer)

RagService_query_with_sources_call(query) == RagService_query_call(query, TRUE)

RagService_query_with_sources(out) ==
  LET r == RagService_query(out)
  IN  IF r.kind = "raise" THEN r
      ELSE IF ~Truthy(r.v.success) \/ ~Truthy(r.v.answer)
      THEN Raise("PluggedInError",
                 PyOr(r.v.error, JStr("No answer received from knowledge base")))
      ELSE Return(JObj([answer |-> r.v.answer,
                        sources |-> PyOr(r.v.documents, JList(<<>>))]))

RagService_find_relevant_documents_call(query) == RagService_query_call(query, TRUE)

RagService_find_relevant_documents(limit, out) ==
  LET r == RagService_query(out)
  IN  IF r.kind = "raise" THEN r
      ELSE IF ~Truthy(r.v.success)
      THEN Raise("PluggedInError",
                 PyOr(r.v.error, JStr("Failed to search documents")))
      ELSE LET documents == PyOr(r.v.documents, JList(<<>>))
           IN  Return(JList(PySliceTo(documents.l, limit)))

RagService_check_availability_call ==
  RagService_query_call("__pluggedin_health_check__", FALSE)

\* A mutation: only the service's own error is caught.
RagService_check_availability_narrow(out) ==
  LET r == RagService_query(out)
  IN  IF r.kind = "raise"
      THEN IF r.exc = "PluggedInError"
           THEN Return(JObj([available |-> JBool(FALSE), message |-> PyStr(r)]))
           ELSE r
      ELSE Return(JObj([available |-> JBool(TRUE)]))

\* A mutation: the probe's success flag is reported as the availability.
RagService_check_availability_by_success(out) ==
  LET r == RagService_query(out)
  IN  IF r.kind = "raise"
      THEN Return(JObj([available |-> JBool(FALSE), message |-> PyStr(r)]))
      ELSE Return(JObj([available |-> JBool(Truthy(r.v.success))]))

RagService_check_availability(out) ==
  LET r == RagService_query(out)
  IN  IF r.kind = "raise"
      THEN Return(JObj([available |-> JBool(FALSE), message |-> PyStr(r)]))
      ELSE Return(JObj([available |-> JBool(TRUE)]))

\* AsyncRagService._parse_rag_response: response.json(), or response.text when the
\* body does not decode.
AsyncRagService_parse_rag_response(response) ==
  IF response.body.t = "json" THEN response.body.v ELSE JStr(response.body.s)

\* AsyncRagService.query: the request it sends, and what it makes of the outcome of
\* client.request (a response, or the exception the transport raised).
AsyncRagService_query_call(query, include_metadata) ==
  Request("POST", "/api/rag/query", NoArg,
          JObj([query |-> JStr(query),
                includeMetadata |-> JBool(include_metadata)]))

AsyncRagService_query(out) ==
  IF out.kind = "raise" THEN out
  ELSE Return(AsyncRagService_transform_rag_response(AsyncRagService_parse_rag_response(out)))

AsyncRagService_ask_question_call(query) == AsyncRagService_query_call(query, FALSE)

AsyncRagService_ask_question(out) ==
  LET r == AsyncRagService_query(out)
  IN  IF r.kind = "raise" THEN r
      ELSE IF ~Truthy(r.v.success) \/ ~Truthy(r.v.answer)
      THEN Raise("PluggedInError",
                 PyOr(r.v.error, JStr("No answer received from knowledge base")))
      ELSE Return(r.v.answer)

AsyncRagService_query_with_sources_call(query) == AsyncRagService_query_call(query, TRUE)

AsyncRagService_query_with_sources(out) ==
  LET r == AsyncRagService_query(out)
  IN  IF r.kind = "raise" THEN r
      ELSE IF ~Truthy(r.v.success) \/ ~Truthy(r.v.answer)
      THEN Raise("PluggedInError",
                 PyOr(r.v.error, JStr("No answer received from knowledge base")))
      ELSE Return(JObj([answer |-> r.v.answer,
                        sources |-> PyOr(r.v.documents, JList(<<>>))]))

AsyncRagService_find_relevant_documents_call(query) == AsyncRagService_query_call(query, TRUE)

AsyncRagService_find_relevant_documents(limit, out) ==
  LET r == AsyncRagService_query(out)
  IN  IF r.kind = "raise" THEN r
      ELSE IF ~Truthy(r.v.success)
      THEN Raise("PluggedInError",
                 PyOr(r.v.error, JStr("Failed to search documents")))
      ELSE LET documents == PyOr(r.v.documents, JList(<<>>))
           IN  Return(JList(PySliceTo(documents.l, limit)))

AsyncRagService_check_availability_call ==
  AsyncRagService_query_call("__pluggedin_health_check__", FALSE)

AsyncRagService_check_availability(out) ==
  LET r == AsyncRagService_query(out)
  IN  IF r.kind = "raise"
      THEN Return(JObj([available |-> JBool(FALSE), message |-> PyStr(r)]))
      ELSE Return(JObj([available |-> JBool(TRUE)]))

\* types.RagStorageStats, and a float with a whole value.
JFloat(n) == [t |-> "float", x |-> n]

RagStorageStats(documents_count, total_chunks, estimated_storage_mb, vectors_count, embedding_dimension, is_estimate) ==
  [t |-> "RagStorageStats", documents_count |-> documents_count,
   total_chunks |-> total_chunks,
   estimated_storage_mb |-> estimated_storage_mb,
   vectors_count |-> vectors_count,
   embedding_dimension |-> embedding_dimension, is_estimate |-> is_estimate]

\* RagService.get_storage_stats: the validation and the request, and what it
\* makes of the outcome; response.json() is not guarded here.
RagService_get_storage_stats_call(user_id) ==
  IF ~Truthy(user_id)
  THEN Raise("PluggedInError",
             JStr("user_id is required to fetch storage statistics"))
  ELSE Request("GET", "/api/rag/storage-stats", JObj([user_id |-> user_id]),
               NoArg)

RagService_get_storage_stats(out) ==
  IF out.kind = "raise" THEN out
  ELSE IF out.body.t # "json" THEN Raise("ValueError", JStr(out.body.s))
  ELSE IF out.body.v.t # "obj"
  THEN Raise("AttributeError", JStr("no attribute 'get'"))
  ELSE LET data == out.body.v.o
       IN  Return(RagStorageStats(
             DictGetDefault(data, "documents_count", JInt(0)),
             DictGetDefault(data, "total_chunks", JInt(0)),
             DictGetDefault(data, "estimated_storage_mb", JFloat(0)),
             DictGet(data, "vectors_count"),
             DictGet(data, "embedding_dimension"),
             DictGetDefault(data, "is_estimate", JBool(TRUE))))

\* RagService.refresh_document and remove_document.
RagService_refresh_document ==
  Raise("PluggedInError",
        JStr("Document refresh is no longer available via the public API."))

RagService_remove_document ==
  Raise("PluggedInError",
        JStr("Document removal is no longer available via the public API."))

\* AsyncRagService.get_storage_stats: the validation and the request, and what it
\* makes of the outcome; response.json() is not guarded here.
AsyncRagService_get_storage_stats_call(user_id) ==
  IF ~Truthy(user_id)
  THEN Raise("PluggedInError",
             JStr("user_id is required to fetch storage statistics"))
  ELSE Request("GET", "/api/rag/storage-stats", JObj([user_id |-> user_id]),
               NoArg)

AsyncRagService_get_storage_stats(out) ==
  IF out.kind = "raise" THEN out
  ELSE IF out.body.t # "json" THEN Raise("ValueError", JStr(out.body.s))
  ELSE IF out.body.v.t # "obj"
  THEN Raise("AttributeError", JStr("no attribute 'get'"))
  ELSE LET data == out.body.v.o
       IN  Return(RagStorageStats(
             DictGetDefault(data, "documents_count", JInt(0)),
             DictGetDefault(data, "total_chunks", JInt(0)),
             DictGetDefault(data, "estimated_storage_mb", JFloat(0)),
             DictGet(data, "vectors_count"),
             DictGet(data, "embedding_dimension"),
             DictGetDefault(data, "is_estimate", JBool(TRUE))))

\* AsyncRagService.refresh_document and remove_document.
AsyncRagService_refresh_document ==
  Raise("PluggedInError",
        JStr("Document refresh is no longer available via the public API."))

AsyncRagService_remove_document ==
  Raise("PluggedInError",
        JStr("Document removal is no longer available via the public API."))

(***************************************************************************)
(* One call of a RAG operation: the request is handed to client.request,   *)
(* whose outcome is an exception or a response with any body.              *)
(***************************************************************************)
QueryArgs == {"q"}
LimitArgs == (0 - 1)..(MaxDocs + 1)

TransportErrors ==
  {Raise("PluggedInError", JStr("boom")), Raise("ConnectionError", JStr("down"))}

\* The JSON bodies a call is answered with: the document ids are spelled
\* documentIds here, both spellings are given to the normalizer in SpecRag.
RagDocMappings ==
  WithKey(WithKey(WithKey({EmptyDict},
    "answer", {JStr("x")}),
    "sources", {None} \cup SourceLists),
    "documentIds", {None} \cup IdLists)

RagBodies ==
  RagStrings \cup RagOtherValues
    \cup {JObj(m) : m \in RagDocMappings \cup RagAliasMappings}

RagOutcomes ==
  TransportErrors
    \cup {HttpResponse(RawBody(s)) : s \in {"plain answer", ""}}
    \cup {HttpResponse(JsonBody(v)) : v \in RagBodies}

UserIdArgs == {JStr(""), JStr("u1")}

StatsMappings ==
  WithKey(WithKey(WithKey({EmptyDict},
    "documents_count", {JInt(3)}),
    "vectors_count", {JInt(7)}),
    "is_estimate", {JBool(FALSE)})

StatsOutcomes ==
  TransportErrors
    \cup {HttpResponse(RawBody("")), HttpResponse(JsonBody(None))}
    \cup {HttpResponse(JsonBody(JObj(m))) : m \in StatsMappings}

StatsOutcomesNow == IF call = NoCall THEN StatsOutcomes ELSE {}

\* The outcomes to draw from: none once the call has been made.
RagOutcomesNow == IF call = NoCall THEN RagOutcomes ELSE {}

RagExchange(c, plan, out, res) ==
  /\ call = NoCall
  /\ call' = c
  /\ requests' = IF plan.kind = "raise" THEN <<>> ELSE <<plan>>
  /\ responses' = IF plan.kind = "raise" THEN <<>> ELSE <<out>>
  /\ result' = IF plan.kind = "raise" THEN plan ELSE res
  /\ UNCHANGED <<serverKind, named, stack, justPushed, setReturned, ragData,
                 ragResponse>>

Query(mode, query, include_metadata, out) ==
  RagExchange([op |-> "query", mode |-> mode, query |-> query,
               include_metadata |-> include_metadata],
              IF mode = "sync" THEN RagService_query_call(query, include_metadata)
              ELSE AsyncRagService_query_call(query, include_metadata),
              out,
              IF mode = "sync" THEN RagService_query(out)
              ELSE AsyncRagService_query(out))

AskQuestion(mode, query, out) ==
  RagExchange([op |-> "ask_question", mode |-> mode, query |-> query],
              IF mode = "sync" THEN RagService_ask_question_call(query)
              ELSE AsyncRagService_ask_question_call(query),
              out,
              IF mode = "sync" THEN RagService_ask_question(out)
              ELSE AsyncRagService_ask_question(out))

QueryWithSources(mode, query, out) ==
  RagExchange([op |-> "query_with_sources", mode |-> mode, query |-> query],
              IF mode = "sync" THEN RagService_query_with_sources_call(query)
              ELSE AsyncRagService_query_with_sources_call(query),
              out,
              IF mode = "sync" THEN RagService_query_with_sources(out)
              ELSE AsyncRagService_query_with_sources(out))

FindRelevantDocuments(mode, query, limit, out) ==
  RagExchange([op |-> "find_relevant_documents", mode |-> mode,
               query |-> query, limit |-> limit],
              IF mode = "sync" THEN RagService_find_relevant_documents_call(query)
              ELSE AsyncRagService_find_relevant_documents_call(query),
              out,
              IF mode = "sync" THEN RagService_find_relevant_documents(limit, out)
              ELSE AsyncRagService_find_relevant_documents(limit, out))

CheckAvailability(mode, out) ==
  RagExchange([op |-> "check_availability", mode |-> mode],
              IF mode = "sync" THEN RagService_check_availability_call
              ELSE AsyncRagService_check_availability_call,
              out,
              IF mode = "sync" THEN RagService_check_availability(out)
              ELSE AsyncRagService_check_availability(out))

GetStorageStats(mode, user_id, out) ==
  RagExchange([op |-> "get_storage_stats", mode |-> mode, user_id |-> user_id],
              IF mode = "sync" THEN RagService_get_storage_stats_call(user_id)
              ELSE AsyncRagService_get_storage_stats_call(user_id),
              out,
              IF mode = "sync" THEN RagService_get_storage_stats(out)
              ELSE AsyncRagService_get_storage_stats(out))

RefreshDocument(mode) ==
  RagExchange([op |-> "refresh_document", mode |-> mode],
              IF mode = "sync" THEN RagService_refresh_document
              ELSE AsyncRagService_refresh_document,
              NoResult, NoResult)

RemoveDocument(mode) ==
  RagExchange([op |-> "remove_document", mode |-> mode],
              IF mode = "sync" THEN RagService_remove_document
              ELSE AsyncRagService_remove_document,
              NoResult, NoResult)

RagCalls ==
  \/ \E out \in StatsOutcomesNow, mode \in Modes, user_id \in UserIdArgs :
       GetStorageStats(mode, user_id, out)
  \/ \E mode \in Modes : RefreshDocument(mode)
  \/ \E mode \in Modes : RemoveDocument(mode)
  \/ \E out \in RagOutcomesNow, mode \in Modes, query \in QueryArgs,
        include_metadata \in BOOLEAN : Query(mode, query, include_metadata, out)
  \/ \E out \in RagOutcomesNow, mode \in Modes, query \in QueryArgs :
       AskQuestion(mode, query, out)
  \/ \E out \in RagOutcomesNow, mode \in Modes, query \in QueryArgs :
       QueryWithSources(mode, query, out)
  \/ \E out \in RagOutcomesNow, mode \in Modes, query \in QueryArgs,
        limit \in LimitArgs : FindRelevantDocuments(mode, query, limit, out)
  \/ \E out \in RagOutcomesNow, mode \in Modes : CheckAvailability(mode, out)

NextCalls == NextEnv \/ RagCalls

\* One call of any clipboard or RAG operation, with any arguments, against a
\* transport that may answer anything.
SpecCalls == InitEnv /\ [][NextCalls]_vars

(***************************************************************************)
(* services/uploads.py: upload_document of UploadService and of            *)
(* AsyncUploadService, and the types it uses (pluggedinkit/types.py).      *)
(***************************************************************************)
UploadMetadata(title, format) ==
  [title |-> title, description |-> None, tags |-> None, category |-> None,
   format |-> format, metadata |-> None]

DocumentWithContent(data) == [t |-> "DocumentWithContent", fields |-> data]

\* f"{v}" of a string or of None.
PyFormat(v) == IF v.t = "str" THEN v.s ELSE "None"

\* UploadService.upload_document, in the order of its code: the request that
\* creates the document, what it makes of the outcome (an error, or the id
\* of the created document), the request that fetches the document, and
\* what it makes of that outcome.
UploadService_upload_document_post(content, metadata) ==
  Request("POST", "/api/documents/ai", NoArg,
          JObj([title |-> metadata.title, content |-> content,
                description |-> metadata.description, tags |-> metadata.tags,
                category |-> metadata.category,
                format |-> PyOr(metadata.format, JStr("md")),
                metadata |-> metadata.metadata]))

\* A mutation: the document is fetched without checking that the server
\* returned an id.
UploadService_upload_document_created_unchecked(out) ==
  IF out.kind = "raise" THEN out
  ELSE IF out.body.t # "json" THEN Raise("ValueError", JStr(out.body.s))
  ELSE IF out.body.v.t # "obj"
  THEN Raise("AttributeError", JStr("no attribute 'get'"))
  ELSE LET data == out.body.v.o
           document_id == DictGet(data, "documentId")
       IN  IF ~Truthy(DictGet(data, "success"))
           THEN Raise("PluggedInError",
                      DictGetDefault(data, "error",
                                     JStr("Failed to upload document")))
           ELSE [kind |-> "created", document_id |-> document_id]

UploadService_upload_document_created(out) ==
  IF out.kind = "raise" THEN out
  ELSE IF out.body.t # "json" THEN Raise("ValueError", JStr(out.body.s))
  ELSE IF out.body.v.t # "obj"
  THEN Raise("AttributeError", JStr("no attribute 'get'"))
  ELSE LET data == out.body.v.o
           document_id == DictGet(data, "documentId")
       IN  IF ~Truthy(DictGet(data, "success"))
           THEN Raise("PluggedInError",
                      DictGetDefault(data, "error",
                                     JStr("Failed to upload document")))
           ELSE IF ~Truthy(document_id)
           THEN Raise("PluggedInError",
                      JStr("Server did not return a document id"))
           ELSE [kind |-> "created", document_id |-> document_id]

UploadService_upload_document_get(document_id) ==
  Request("GET", "/api/documents/" \o PyFormat(document_id),
          JObj([includeContent |-> JStr("true")]), NoArg)

UploadService_upload_document_fetched(out) ==
  IF out.kind = "raise" THEN out
  ELSE IF out.body.t # "json" THEN Raise("ValueError", JStr(out.body.s))
  ELSE IF out.body.v.t # "obj"
  THEN Raise("TypeError", JStr("argument after ** must be a mapping"))
  ELSE Return(DocumentWithContent(out.body.v.o))

\* AsyncUploadService.upload_document, in the order of its code: the request that
\* creates the document, what it makes of the outcome (an error, or the id
\* of the created document), the request that fetches the document, and
\* what it makes of that outcome.
AsyncUploadService_upload_document_post(content, metadata) ==
  Request("POST", "/api/documents/ai", NoArg,
          JObj([title |-> metadata.title, content |-> content,
                description |-> metadata.description, tags |-> metadata.tags,
                category |-> metadata.category,
                format |-> PyOr(metadata.format, JStr("md")),
                metadata |-> metadata.metadata]))

AsyncUploadService_upload_document_created(out) ==
  IF out.kind = "raise" THEN out
  ELSE IF out.body.t # "json" THEN Raise("ValueError", JStr(out.body.s))
  ELSE IF out.body.v.t # "obj"
  THEN Raise("AttributeError", JStr("no attribute 'get'"))
  ELSE LET data == out.body.v.o
           document_id == DictGet(data, "documentId")
       IN  IF ~Truthy(DictGet(data, "success"))
           THEN Raise("PluggedInError",
                      DictGetDefault(data, "error",
                                     JStr("Failed to upload document")))
           ELSE IF ~Truthy(document_id)
           THEN Raise("PluggedInError",
                      JStr("Server did not return a document id"))
           ELSE [kind |-> "created", document_id |-> document_id]

AsyncUploadService_upload_document_get(document_id) ==
  Request("GET", "/api/documents/" \o PyFormat(document_id),
          JObj([includeContent |-> JStr("true")]), NoArg)

AsyncUploadService_upload_document_fetched(out) ==
  IF out.kind = "raise" THEN out
  ELSE IF out.body.t # "json" THEN Raise("ValueError", JStr(out.body.s))
  ELSE IF out.body.v.t # "obj"
  THEN Raise("TypeError", JStr("argument after ** must be a mapping"))
  ELSE Return(DocumentWithContent(out.body.v.o))

(***************************************************************************)
(* One call of upload_document, in two steps: the first sends the POST and *)
(* reads its answer, the second, taken only when the first got the id of   *)
(* the created document, sends the GET and reads its answer.               *)
(***************************************************************************)
ContentArgs == {JStr("text")}
MetadataArgs == {UploadMetadata(JStr("t"), f) : f \in {None, JStr("md"), JStr("txt")}}

CreateOutcomes ==
  TransportErrors
    \cup {HttpResponse(RawBody("")), HttpResponse(JsonBody(None))}
    \cup {HttpResponse(JsonBody(JObj(m))) :
            m \in WithKey(WithKey(WithKey({EmptyDict},
                   "success", {None, JBool(FALSE), JBool(TRUE)}),
                   "documentId", {None, JStr(""), JStr("doc1"), JStr("doc2")}),
                   "error", {JStr("boom")})}

FetchOutcomes ==
  TransportErrors
    \cup {HttpResponse(RawBody("")), HttpResponse(JsonBody(None)),
          HttpResponse(JsonBody(JObj(EmptyDict))),
          HttpResponse(JsonBody(JObj([id |-> JStr("doc1"),
                                      content |-> JStr("text")])))}

UploadDocumentPost(mode, content, metadata, out) ==
  LET created == IF mode = "sync"
                 THEN UploadService_upload_document_created(out)
                 ELSE AsyncUploadService_upload_document_created(out)
  IN  /\ call = NoCall
      /\ call' = [op |-> "upload_document", mode |-> mode,
                  content |-> content, metadata |-> metadata]
      /\ requests' = <<IF mode = "sync"
                       THEN UploadService_upload_document_post(content, metadata)
                       ELSE AsyncUploadService_upload_document_post(content,
                                                                    metadata)>>
      /\ responses' = <<out>>
      /\ result' = created
      /\ UNCHANGED <<serverKind, named, stack, justPushed, setReturned,
                     ragData, ragResponse>>

UploadDocumentGet(out) ==
  /\ call.op = "upload_document"
  /\ result.kind = "created"
  /\ requests' = Append(requests,
                        IF call.mode = "sync"
                        THEN UploadService_upload_document_get(result.document_id)
                        ELSE AsyncUploadService_upload_document_get(
                               result.document_id))
  /\ responses' = Append(responses, out)
  /\ result' = IF call.mode = "sync"
               THEN UploadService_upload_document_fetched(out)
               ELSE AsyncUploadService_upload_document_fetched(out)
  /\ UNCHANGED <<serverKind, named, stack, call, justPushed, setReturned,
                 ragData, ragResponse>>

NextUpload ==
  \/ \E mode \in Modes, content \in ContentArgs, metadata \in MetadataArgs,
        out \in CreateOutcomes : UploadDocumentPost(mode, content, metadata, out)
  \/ \E out \in FetchOutcomes : UploadDocumentGet(out)

\* One call of upload_document against a transport that may answer anything.
SpecUpload == InitEnv /\ [][NextUpload]_vars

(***************************************************************************)
(* Properties of the clipboard facade.                                     *)
(***************************************************************************)

\* C1: get and delete, sync and async, called with neither name nor idx or
\* with both, raise a validation error and issue no request; called with
\* exactly one of them they issue one request to /api/clipboard that carries
\* that field alone: as a query parameter for get (idx as its decimal string),
\* as a key of the JSON body for delete.
C1_AddressingValidated ==
  call.op \in {"get", "delete"} =>
    IF (call.name = None) = (call.idx = None)
    THEN /\ result.kind = "raise"
         /\ result.exc = "ValidationError"
         /\ requests = <<>>
    ELSE /\ Len(requests) = 1
         /\ requests[1].path = "/api/clipboard"
         /\ IF call.op = "get"
            THEN /\ requests[1].method = "GET"
                 /\ requests[1].json = NoArg
                 /\ requests[1].params =
                      JObj(IF call.name # None THEN [name |-> call.name]
                           ELSE [idx |-> JStr(ToString(call.idx.n))])
            ELSE /\ requests[1].method = "DELETE"
                 /\ requests[1].params = NoArg
                 /\ requests[1].json =
                      JObj(IF call.name # None THEN [name |-> call.name]
                           ELSE [idx |-> call.idx])

\* A get by the stack index 0 alone went out as one request.
C1_Witness ==
  /\ call.op = "get"
  /\ call.name = None
  /\ call.idx = JInt(0)
  /\ Len(requests) = 1
  /\ "idx" \in DOMAIN requests[1].params.o

\* C2: set and push with ttl_seconds <= 0 raise ValueError and send nothing,
\* whatever the other arguments; every body they send carries ttlSeconds
\* equal to a given ttl_seconds and no ttlSeconds key when none was given; and
\* with a valid encoding and visibility and a TTL that is absent or positive
\* the request is sent.
C2_TtlValidated ==
  call.op \in {"set", "push"} =>
    /\ (call.ttl # None /\ call.ttl.n <= 0) =>
         /\ result.kind = "raise"
         /\ result.exc = "ValueError"
         /\ requests = <<>>
    /\ \A i \in 1..Len(requests) :
         IF call.ttl = None
         THEN "ttlSeconds" \notin DOMAIN requests[i].json.o
         ELSE /\ "ttlSeconds" \in DOMAIN requests[i].json.o
              /\ requests[i].json.o["ttlSeconds"] = call.ttl
    /\ ( /\ call.ttl = None \/ call.ttl.n > 0
         /\ call.encoding \in ClipboardEncoding
         /\ call.visibility \in ClipboardVisibility ) => Len(requests) = 1

\* A set with ttl_seconds = 0 and otherwise valid arguments raised before any
\* request.
C2_Witness ==
  /\ call.op = "set"
  /\ call.ttl = JInt(0)
  /\ call.encoding \in ClipboardEncoding
  /\ result.kind = "raise"
  /\ requests = <<>>

\* C3: against the server that keeps the store, a get(name) returns the entry
\* the last set(name, ..) returned, as long as no set on that name, no
\* delete(name) and no clear_all was sent since; pushes, pops, deletes by
\* index and calls on other names in between change nothing of it.
C3_SetGetRoundTrip ==
  ( /\ call.op = "get"
    /\ call.name # None
    /\ call.idx = None
    /\ call.name.s \in DOMAIN setReturned ) =>
    result = Return(setReturned[call.name.s])

\* A get of "a" returned an entry while another name and a stack slot were
\* stored too.
C3_Witness ==
  /\ call.op = "get"
  /\ call.name = JStr("a")
  /\ call.idx = None
  /\ "a" \in DOMAIN setReturned
  /\ result.kind = "return"
  /\ result.v # None
  /\ "b" \in DOMAIN named
  /\ stack # <<>>

\* C4: a pop never raises; a pop right after a push that returned returns the
\* entry that push returned; a pop on an empty stack returns None; and of two
\* pops in a row that both return an entry, the second returns the entry
\* pushed earlier (the smaller index).
C4_PushPopLifo ==
  [][ call'.op = "pop" =>
        /\ result'.kind = "return"
        /\ (call.op = "push" /\ result.kind = "return") => result'.v = result.v
        /\ stack = <<>> => result'.v = None
        /\ ( /\ call.op = "pop"
             /\ result.kind = "return"
             /\ result.v # None
             /\ result'.v # None ) => result'.v.idx.n < result.v.idx.n
    ]_vars

\* A pop right after a push returned the pushed entry, with an older entry
\* left on the stack.
C4_Witness ==
  /\ call.op = "pop"
  /\ justPushed # None
  /\ result = Return(justPushed)
  /\ stack # <<>>

\* Whether the entry a delete addresses is missing from the store.
TargetAbsent(c) ==
  IF c.name # None THEN c.name.s \notin DOMAIN named
  ELSE StackPos(c.idx.n) = 0

\* C5: a validly addressed delete of an entry the store does not hold returns
\* 0, does not raise and leaves the store as it was, whichever shape the
\* server's answer has (success false, deleted 0, deleted false, deleted null,
\* no deleted key).
C5_DeleteIdempotent ==
  [][ (call'.op = "delete" /\ requests' # <<>> /\ TargetAbsent(call')) =>
        /\ result' = Return(JInt(0))
        /\ named' = named
        /\ stack' = stack
    ]_vars

\* A delete by name was answered with deleted null and returned 0.
C5_Witness ==
  /\ call.op = "delete"
  /\ call.name = JStr("a")
  /\ requests # <<>>
  /\ responses[1] = [success |-> JBool(TRUE), deleted |-> None]
  /\ result = Return(JInt(0))

\* The operation's built-in failure message (delete has none of its own).
DefaultMessage(op) ==
  CASE op = "list" -> "Failed to list clipboard entries"
    [] op = "get" -> "Failed to get clipboard entry"
    [] op = "set" -> "Failed to set clipboard entry"
    [] op = "push" -> "Failed to push to clipboard"
    [] op = "pop" -> "Failed to pop from clipboard"
    [] op = "clear_all" -> "Failed to clear clipboard"
    [] OTHER -> "Operation failed"

FailureAnswered ==
  /\ requests # <<>>
  /\ DictGet(responses[1], "success") = JBool(FALSE)

\* C6, as claimed: every clipboard operation that gets an envelope with
\* success false raises PluggedInError with the envelope's error, or with the
\* operation's default message when the envelope has no error key.
C6_AllOperationsRaise ==
  FailureAnswered =>
    result = Raise("PluggedInError",
                   DictGetDefault(responses[1], "error",
                                  JStr(DefaultMessage(call.op))))

\* C6, amended: on an envelope with success false, list, set, push and
\* clear_all raise PluggedInError carrying the envelope's error, or the
\* operation's default message when the envelope has no error key; get and
\* pop return None and delete returns 0 without raising.
C6_FailureEnvelope ==
  FailureAnswered =>
    IF call.op \in {"list", "set", "push", "clear_all"}
    THEN result = Raise("PluggedInError",
                        DictGetDefault(responses[1], "error",
                                       JStr(DefaultMessage(call.op))))
    ELSE IF call.op \in {"get", "pop"}
    THEN result = Return(None)
    ELSE result = Return(JInt(0))

\* A list answered with success false and an error message raised that message.
C6_Witness ==
  /\ call.op = "list"
  /\ FailureAnswered
  /\ DictGet(responses[1], "error") = JStr("boom")
  /\ result = Raise("PluggedInError", JStr("boom"))

C8_ClearAllBulkOnly ==
  call.op = "clear_all" =>
    /\ requests = << Request("DELETE", "/api/clipboard", NoArg,
                             JObj([clearAll |-> JBool(TRUE)])) >>
    /\ DictGet(responses[1], "success") = JBool(TRUE) =>
         result = Return(ClearAllResult(
                    DictGetDefault(responses[1], "deleted", JInt(0)), JInt(0)))
    /\ result.kind = "return" => result.v.failed = JInt(0)

\* An asynchronous clear_all returned the count 2 the server reported.
C8_Witness ==
  /\ call.op = "clear_all"
  /\ call.mode = "async"
  /\ result = Return(ClearAllResult(JInt(2), JInt(0)))
  /\ Len(requests) = 1

SuccessWithoutEntry ==
  /\ call.op \in {"set", "push", "get", "pop"}
  /\ requests # <<>>
  /\ DictGet(responses[1], "success") = JBool(TRUE)
  /\ DictGet(responses[1], "entry") \in {None, JObj(EmptyDict)}

C19_StrictAndLenientParse ==
  SuccessWithoutEntry =>
    IF call.op \in {"set", "push"}
    THEN result.kind = "raise" /\ result.exc = "PluggedInError"
    ELSE result = Return(None)

\* push is answered success with an empty entry object, and raises.
C19_Witness ==
  /\ SuccessWithoutEntry
  /\ call.op = "push"
  /\ "entry" \in DOMAIN responses[1]
  /\ responses[1]["entry"] = JObj(EmptyDict)
  /\ result.kind = "raise"

(***************************************************************************)
(* C20: stack slots are immutable once pushed. In every step, each stack   *)
(* entry keeps its index and value unless the call is a pop, a delete by   *)
(* idx or a clear_all; a set leaves the stack as it is and a push only     *)
(* appends an entry with a new index.                                      *)
(***************************************************************************)
StackEntries(s) == {s[i] : i \in 1..Len(s)}

C20_StackSlotsImmutable ==
  [][/\ (StackEntries(stack) \subseteq StackEntries(stack'))
          \/ call'.op \in {"pop", "clear_all"}
          \/ (call'.op = "delete" /\ call'.idx # None)
     /\ call'.op = "set" => stack' = stack
     /\ call'.op = "push" =>
          /\ Len(stack') >= Len(stack)
          /\ SubSeq(stack', 1, Len(stack)) = stack
          /\ \A i \in (Len(stack) + 1)..Len(stack') :
               \A j \in 1..Len(stack) : stack'[i].idx # stack[j].idx]_vars

\* A set that stored a named slot while two entries were on the stack.
C20_Witness ==
  /\ call.op = "set"
  /\ result.kind = "return"
  /\ Len(stack) = 2
  /\ stack[1].idx = 0 /\ stack[2].idx = 1

(***************************************************************************)
(* C21: a clipboard call issues exactly one transport request when its     *)
(* local validation passes and none when it fails; whatever the answer, a  *)
(* failure envelope included, no second request follows.                   *)
(***************************************************************************)
\* The arguments of the call c pass the local validation.
ValidArguments(c) ==
  CASE c.op \in {"get", "delete"} -> (c.name = None) # (c.idx = None)
    [] c.op \in {"set", "push"} ->
         /\ c.encoding \in ClipboardEncoding
         /\ c.visibility \in ClipboardVisibility
         /\ c.ttl = None \/ c.ttl.n > 0
    [] OTHER -> TRUE

C21_OneRequestPerCall ==
  call # NoCall =>
    IF ValidArguments(call)
    THEN /\ Len(requests) = 1
         /\ Len(responses) = 1
         /\ result # NoResult
    ELSE /\ requests = <<>>
         /\ responses = <<>>
         /\ result.kind = "raise"

\* A set that was answered with a failure envelope: one request, no retry.
C21_Witness ==
  /\ call.op = "set"
  /\ Len(requests) = 1
  /\ DictGet(responses[1], "success") = JBool(FALSE)
  /\ result.kind = "raise"

(***************************************************************************)
(* C23 as stated: every body set sends to POST /api/clipboard has a name   *)
(* key equal to the name argument, the empty string included, and every    *)
(* body push sends to POST /api/clipboard/push has no name key.            *)
(***************************************************************************)
C23_SetAlwaysNamed ==
  (call.op \in {"set", "push"} /\ requests # <<>>) =>
    IF call.op = "set"
    THEN /\ requests[1].path = "/api/clipboard"
         /\ DictGetDefault(requests[1].json.o, "name", NoArg) = call.name
    ELSE /\ requests[1].path = "/api/clipboard/push"
         /\ "name" \notin DOMAIN requests[1].json.o

(***************************************************************************)
(* C23 as amended: a body set sends to POST /api/clipboard has a name key  *)
(* equal to the name argument when the name is not empty, and no name key  *)
(* when it is the empty string; a body push sends to                       *)
(* POST /api/clipboard/push has no name key.                               *)
(***************************************************************************)
C23_NameOnlyIfNonEmpty ==
  (call.op \in {"set", "push"} /\ requests # <<>>) =>
    IF call.op = "set"
    THEN /\ requests[1].path = "/api/clipboard"
         /\ DictGetDefault(requests[1].json.o, "name", NoArg) =
              (IF call.name = JStr("") THEN NoArg ELSE call.name)
    ELSE /\ requests[1].path = "/api/clipboard/push"
         /\ "name" \notin DOMAIN requests[1].json.o

\* A set with the empty name: the body posted to /api/clipboard has no name.
C23_Witness ==
  /\ call.op = "set"
  /\ call.name = JStr("")
  /\ requests # <<>>
  /\ requests[1].path = "/api/clipboard"
  /\ "name" \notin DOMAIN requests[1].json.o
  /\ "value" \in DOMAIN requests[1].json.o

(***************************************************************************)
(* C24: for every success envelope, the deleted field of the result of     *)
(* clear_all is an integer equal to what delete-count parsing yields for   *)
(* the envelope (the count for a number, 1 or 0 for a boolean, 0 when      *)
(* deleted is absent or null), so that total is computable. A Python bool  *)
(* counts as the integer it equals.                                        *)
(***************************************************************************)
C24_ClearAllDeletedParsed ==
  (/\ call.op = "clear_all"
   /\ Truthy(DictGet(responses[1], "success"))) =>
    /\ result.kind = "return"
    /\ result.v.deleted.t \in {"int", "bool"}
    /\ (IF result.v.deleted.t = "int" THEN result.v.deleted.n
        ELSE IF result.v.deleted.b THEN 1 ELSE 0)
         = _parse_delete_response(responses[1]).v.n
    /\ ClearAllResult_total(result.v).kind = "return"

(***************************************************************************)
(* Properties of the RAG normalizer.                                       *)
(***************************************************************************)
\* The list under a key of a mapping, empty when the key is missing, null or
\* an empty list.
ListAt(m, k) == IF k \in DOMAIN m /\ m[k] # None THEN m[k].l ELSE <<>>

\* C10: for a mapping whose ids are d_1..d_n (documentIds, or document_ids
\* when documentIds is missing, null or empty) and whose sources are
\* s_1..s_m, the response has n documents in the order of the ids; document i
\* has id d_i and the name s_i when i <= m, and "Document i" (counting from 1)
\* when i > m; sources after the n-th give no document.
C10_DocumentsZip ==
  (ragResponse # NoResult /\ ragData.t = "obj") =>
    LET ids == IF ListAt(ragData.o, "documentIds") # <<>>
               THEN ListAt(ragData.o, "documentIds")
               ELSE ListAt(ragData.o, "document_ids")
        src == ListAt(ragData.o, "sources")
        docs == ragResponse.documents.l
    IN  /\ Len(docs) = Len(ids)
        /\ \A i \in 1..Len(ids) :
             /\ docs[i].id = ids[i]
             /\ docs[i].name = IF i <= Len(src) THEN src[i]
                               ELSE JStr("Document " \o ToString(i))

\* Two ids and one source gave the documents (d1, s1) and (d2, "Document 2").
C10_Witness ==
  /\ ragResponse # NoResult
  /\ ragData.t = "obj"
  /\ ragResponse.documents =
       JList(<< RagSourceDocument(JStr("d1"), JStr("s1")),
                RagSourceDocument(JStr("d2"), JStr("Document 2")) >>)


(***************************************************************************)
(* C11: every response the normalizer produces, whatever the decoded body  *)
(* (a bare string, a mapping with sources / documentIds / document_ids     *)
(* present, null or missing, or a value that is neither), has as many      *)
(* documents as document ids.                                              *)
(***************************************************************************)
C11_DocumentsMatchIds ==
  ragResponse # NoResult =>
    Len(ragResponse.documents.l) = Len(ragResponse.document_ids.l)

\* Two ids are paired with one source only: the lists differ in length.
C11_Witness ==
  /\ ragResponse # NoResult
  /\ ragData.t = "obj"
  /\ Len(ragResponse.document_ids.l) = 2
  /\ Len(ragResponse.sources.l) = 1
  /\ Len(ragResponse.documents.l) = 2

(***************************************************************************)
(* C12 as stated: for a mapping, the answer is the value of the first of   *)
(* the keys answer, response, results, message that the mapping contains,  *)
(* and the empty string when it contains none of them.                     *)
(***************************************************************************)
AliasOrder == <<"answer", "response", "results", "message">>

C14_UnexpectedFormat ==
  (ragResponse # NoResult /\ ragData.t \notin {"str", "obj"}) =>
    /\ ragResponse.t = "RagResponse"
    /\ ragResponse.success = JBool(FALSE)
    /\ ragResponse.error =
         JStr("Unexpected response format from RAG query endpoint")

\* A non-empty list is normalized.
C14_Witness ==
  /\ ragResponse # NoResult
  /\ ragData = JList(<<JStr("d1")>>)
  /\ ragResponse.success = JBool(FALSE)

(***************************************************************************)
(* Properties of the RAG operations.                                       *)
(***************************************************************************)
\* The body of the response the last RAG call received is a bare string:
\* text that does not decode as JSON, or a JSON string.
BareStringBody ==
  /\ call.op \in {"query", "ask_question", "query_with_sources",
                  "find_relevant_documents", "check_availability"}
  /\ responses[1].kind = "response"
  /\ \/ responses[1].body.t = "raw"
     \/ responses[1].body.t = "json" /\ responses[1].body.v.t = "str"

BareString ==
  IF responses[1].body.t = "raw" THEN responses[1].body.s
  ELSE responses[1].body.v.s

(***************************************************************************)
(* C13: when the body of the query response is a bare string, the empty    *)
(* one included, query returns success true, that string as the answer,    *)
(* empty sources, document ids and documents, and no error.                *)
(***************************************************************************)
C13_BareStringAnswer ==
  (call.op = "query" /\ BareStringBody) =>
    /\ result.kind = "return"
    /\ result.v.success = JBool(TRUE)
    /\ result.v.answer = JStr(BareString)
    /\ result.v.sources = JList(<<>>)
    /\ result.v.document_ids = JList(<<>>)
    /\ result.v.documents = JList(<<>>)
    /\ result.v.error = None

\* An empty body, which does not decode as JSON.
C13_Witness ==
  /\ call.op = "query"
  /\ BareStringBody
  /\ responses[1].body = RawBody("")
  /\ result.kind = "return"
  /\ result.v.answer = JStr("")

\* The normalized response of the last RAG call, when the transport returned
\* a response.
Normalized ==
  RagService_transform_rag_response(RagService_parse_rag_response(responses[1]))

NoAnswerMessage == "No answer received from knowledge base"

(***************************************************************************)
(* C15: ask_question and query_with_sources return only when the           *)
(* normalized response has success true and a non-empty answer; otherwise  *)
(* they raise PluggedInError with the response's error when there is one   *)
(* and the default message when there is none. ask_question returns the    *)
(* answer, query_with_sources the answer with the documents as sources.    *)
(***************************************************************************)
C15_AnswerRequired ==
  (/\ call.op \in {"ask_question", "query_with_sources"}
   /\ responses[1].kind = "response") =>
    IF Normalized.success = JBool(TRUE)
         /\ Normalized.answer \notin {None, JStr("")}
    THEN result = Return(IF call.op = "ask_question"
                         THEN Normalized.answer
                         ELSE JObj([answer |-> Normalized.answer,
                                    sources |-> Normalized.documents]))
    ELSE result = Raise("PluggedInError",
                        IF Normalized.error \notin {None, JStr("")}
                        THEN Normalized.error
                        ELSE JStr(NoAnswerMessage))

\* query_with_sources returns two documents; ask_question is refused an
\* answer by a response that reports success with an empty answer.
C15_Witness ==
  /\ call.op \in {"ask_question", "query_with_sources"}
  /\ responses[1].kind = "response"
  /\ \/ /\ call.op = "query_with_sources"
        /\ result.kind = "return"
        /\ Len(result.v.o.sources.l) = 2
     \/ /\ call.op = "ask_question"
        /\ Normalized.success = JBool(TRUE)
        /\ Normalized.answer = JStr("")
        /\ result = Raise("PluggedInError", JStr(NoAnswerMessage))

(***************************************************************************)
(* C16: for every integer limit and every successful response,             *)
(* find_relevant_documents returns a prefix of the response's documents,   *)
(* in their order, of at most limit documents (none when limit is          *)
(* negative, exactly min(limit, n) of n when it is not); an empty answer   *)
(* does not make it fail, and success false makes it raise PluggedInError. *)
(***************************************************************************)
C16_AtMostLimit ==
  (/\ call.op = "find_relevant_documents"
   /\ responses[1].kind = "response") =>
    IF Normalized.success = JBool(TRUE)
    THEN /\ result.kind = "return"
         /\ LET docs == Normalized.documents.l
                got == result.v.l
            IN  /\ Len(got) <= Len(docs)
                /\ got = SubSeq(docs, 1, Len(got))
                /\ Len(got) <= (IF call.limit >= 0 THEN call.limit ELSE 0)
                /\ call.limit >= 0 =>
                     Len(got) = (IF call.limit < Len(docs)
                                 THEN call.limit ELSE Len(docs))
    ELSE /\ result.kind = "raise"
         /\ result.exc = "PluggedInError"

(***************************************************************************)
(* C17: check_availability never raises: whatever the outcome of its probe *)
(* query (the transport raising, a body that does not decode, a response   *)
(* of any shape) it returns a mapping, and when the probe raised the       *)
(* mapping is available false with the exception's message.                *)
(***************************************************************************)
C17_AvailabilityNeverRaises ==
  call.op = "check_availability" =>
    /\ result.kind = "return"
    /\ result.v.t = "obj"
    /\ "available" \in DOMAIN result.v.o
    /\ responses[1].kind = "raise" =>
         result.v.o = [available |-> JBool(FALSE),
                       message |-> responses[1].msg]

\* The transport fails with an error that is not the service's own.
C17_Witness ==
  /\ call.op = "check_availability"
  /\ responses[1] = Raise("ConnectionError", JStr("down"))
  /\ result = Return(JObj([available |-> JBool(FALSE),
                           message |-> JStr("down")]))

(***************************************************************************)
(* C22: check_availability reports available true exactly when its probe   *)
(* query returned without raising and available false exactly when it      *)
(* raised; a probe answered with success false, with or without an error   *)
(* message, still yields available true.                                   *)
(***************************************************************************)
C22_AvailableIffProbeReturned ==
  call.op = "check_availability" =>
    /\ result.kind = "return"
    /\ result.v.o["available"] = JBool(responses[1].kind = "response")
    /\ (/\ responses[1].kind = "response"
        /\ responses[1].body.t = "json"
        /\ responses[1].body.v.t = "obj"
        /\ DictGet(responses[1].body.v.o, "success") = JBool(FALSE)) =>
         result = Return(JObj([available |-> JBool(TRUE)]))

\* The probe is answered success false with an error message.
C22_Witness ==
  /\ call.op = "check_availability"
  /\ responses[1].kind = "response"
  /\ responses[1].body.t = "json"
  /\ responses[1].body.v.t = "obj"
  /\ DictGet(responses[1].body.v.o, "success") = JBool(FALSE)
  /\ DictGet(responses[1].body.v.o, "error") = JStr("boom")
  /\ result = Return(JObj([available |-> JBool(TRUE)]))

(***************************************************************************)
(* Properties of the two facades.                                          *)
(***************************************************************************)
\* What the synchronous facade hands to client.request for the call c, and
\* what it ends with when client.request answers with answer.
SyncPlan(c) ==
  CASE c.op = "list" -> ClipboardService_list_call
    [] c.op = "get" -> ClipboardService_get_call(c.name, c.idx)
    [] c.op = "set" ->
         ClipboardService_set_call(c.name, c.value, DefaultContentType,
           c.encoding, c.visibility, c.tool, c.model, c.ttl)
    [] c.op = "push" ->
         ClipboardService_push_call(c.value, DefaultContentType, c.encoding,
           c.visibility, c.tool, c.model, c.ttl)
    [] c.op = "pop" -> ClipboardService_pop_call
    [] c.op = "delete" -> ClipboardService_delete_call(c.name, c.idx)
    [] c.op = "clear_all" -> ClipboardService_clear_all_call
    [] c.op = "query" -> RagService_query_call(c.query, c.include_metadata)
    [] c.op = "ask_question" -> RagService_ask_question_call(c.query)
    [] c.op = "query_with_sources" ->
         RagService_query_with_sources_call(c.query)
    [] c.op = "find_relevant_documents" ->
         RagService_find_relevant_documents_call(c.query)
    [] c.op = "check_availability" -> RagService_check_availability_call
    [] c.op = "get_storage_stats" ->
         RagService_get_storage_stats_call(c.user_id)
    [] c.op = "refresh_document" -> RagService_refresh_document
    [] c.op = "remove_document" -> RagService_remove_document

SyncEnd(c, answer) ==
  CASE c.op = "list" -> ClipboardService_list_parse(answer)
    [] c.op = "get" -> ClipboardService_get_parse(answer)
    [] c.op = "set" -> ClipboardService_set_parse(answer)
    [] c.op = "push" -> ClipboardService_push_parse(answer)
    [] c.op = "pop" -> ClipboardService_pop_parse(answer)
    [] c.op = "delete" -> ClipboardService_delete_parse(answer)
    [] c.op = "clear_all" -> ClipboardService_clear_all_parse(answer)
    [] c.op = "query" -> RagService_query(answer)
    [] c.op = "ask_question" -> RagService_ask_question(answer)
    [] c.op = "query_with_sources" -> RagService_query_with_sources(answer)
    [] c.op = "find_relevant_documents" ->
         RagService_find_relevant_documents(c.limit, answer)
    [] c.op = "check_availability" -> RagService_check_availability(answer)
    [] c.op = "get_storage_stats" -> RagService_get_storage_stats(answer)

\* The same of the asynchronous facade.
AsyncPlan(c) ==
  CASE c.op = "list" -> AsyncClipboardService_list_call
    [] c.op = "get" -> AsyncClipboardService_get_call(c.name, c.idx)
    [] c.op = "set" ->
         AsyncClipboardService_set_call(c.name, c.value, DefaultContentType,
           c.encoding, c.visibility, c.tool, c.model, c.ttl)
    [] c.op = "push" ->
         AsyncClipboardService_push_call(c.value, DefaultContentType,
           c.encoding, c.visibility, c.tool, c.model, c.ttl)
    [] c.op = "pop" -> AsyncClipboardService_pop_call
    [] c.op = "delete" -> AsyncClipboardService_delete_call(c.name, c.idx)
    [] c.op = "clear_all" -> AsyncClipboardService_clear_all_call
    [] c.op = "query" -> AsyncRagService_query_call(c.query, c.include_metadata)
    [] c.op = "ask_question" -> AsyncRagService_ask_question_call(c.query)
    [] c.op = "query_with_sources" ->
         AsyncRagService_query_with_sources_call(c.query)
    [] c.op = "find_relevant_documents" ->
         AsyncRagService_find_relevant_documents_call(c.query)
    [] c.op = "check_availability" -> AsyncRagService_check_availability_call
    [] c.op = "get_storage_stats" ->
         AsyncRagService_get_storage_stats_call(c.user_id)
    [] c.op = "refresh_document" -> AsyncRagService_refresh_document
    [] c.op = "remove_document" -> AsyncRagService_remove_document

AsyncEnd(c, answer) ==
  CASE c.op = "list" -> AsyncClipboardService_list_parse(answer)
    [] c.op = "get" -> AsyncClipboardService_get_parse(answer)
    [] c.op = "set" -> AsyncClipboardService_set_parse(answer)
    [] c.op = "push" -> AsyncClipboardService_push_parse(answer)
    [] c.op = "pop" -> AsyncClipboardService_pop_parse(answer)
    [] c.op = "delete" -> AsyncClipboardService_delete_parse(answer)
    [] c.op = "clear_all" -> AsyncClipboardService_clear_all_parse(answer)
    [] c.op = "query" -> AsyncRagService_query(answer)
    [] c.op = "ask_question" -> AsyncRagService_ask_question(answer)
    [] c.op = "query_with_sources" ->
         AsyncRagService_query_with_sources(answer)
    [] c.op = "find_relevant_documents" ->
         AsyncRagService_find_relevant_documents(c.limit, answer)
    [] c.op = "check_availability" -> AsyncRagService_check_availability(answer)
    [] c.op = "get_storage_stats" -> AsyncRagService_get_storage_stats(answer)

\* The requests sent and the return value or error a facade ends with.
Observed(plan, end) ==
  IF plan.kind = "raise"
  THEN [requests |-> <<>>, result |-> plan]
  ELSE [requests |-> <<plan>>, result |-> end]

(***************************************************************************)
(* C18: the synchronous and the asynchronous facade are observably         *)
(* equivalent: whichever of them made the call, the requests that were     *)
(* sent and the return value or error the call ended with are those of the *)
(* synchronous and those of the asynchronous variant for the same          *)
(* arguments and the same transport answers.                               *)
(***************************************************************************)
C18_SyncAsyncEquivalent ==
  call # NoCall =>
    LET sync == IF SyncPlan(call).kind = "raise"
                THEN Observed(SyncPlan(call), NoResult)
                ELSE Observed(SyncPlan(call), SyncEnd(call, responses[1]))
        async == IF AsyncPlan(call).kind = "raise"
                 THEN Observed(AsyncPlan(call), NoResult)
                 ELSE Observed(AsyncPlan(call), AsyncEnd(call, responses[1]))
    IN  /\ sync = async
        /\ requests = sync.requests
        /\ result = sync.result

\* The asynchronous facade made a call that raised after the answer came, and
\* the synchronous one a call that returned.
C18_Witness ==
  /\ call # NoCall
  /\ requests # <<>>
  /\ \/ call.mode = "async" /\ call.op = "set" /\ result.kind = "raise"
     \/ call.mode = "sync" /\ call.op = "find_relevant_documents"
          /\ result.kind = "return"

(***************************************************************************)
(* Properties of upload_document.                                          *)
(***************************************************************************)
\* The POST was answered with a mapping that reports success true and a
\* non-empty documentId.
UploadAccepted ==
  /\ responses[1].kind = "response"
  /\ responses[1].body.t = "json"
  /\ responses[1].body.v.t = "obj"
  /\ DictGet(responses[1].body.v.o, "success") = JBool(TRUE)
  /\ DictGet(responses[1].body.v.o, "documentId").t = "str"
  /\ DictGet(responses[1].body.v.o, "documentId").s # ""

(***************************************************************************)
(* C25: upload_document first sends POST /api/documents/ai and sends       *)
(* GET /api/documents/{documentId} only after that POST was answered with  *)
(* success true and a non-empty documentId; when the POST reports failure  *)
(* or no documentId the call raises PluggedInError and the GET is never    *)
(* sent; the GET never precedes the POST.                                  *)
(***************************************************************************)
C25_UploadTwoStep ==
  call.op = "upload_document" =>
    /\ Len(requests) \in {1, 2}
    /\ Len(responses) = Len(requests)
    /\ requests[1].method = "POST"
    /\ requests[1].path = "/api/documents/ai"
    /\ Len(requests) = 2 =>
         /\ UploadAccepted
         /\ requests[2].method = "GET"
         /\ requests[2].path =
              "/api/documents/" \o responses[1].body.v.o["documentId"].s
    /\ ~UploadAccepted =>
         /\ Len(requests) = 1
         /\ result.kind = "raise"
         /\ (/\ responses[1].kind = "response"
             /\ responses[1].body.t = "json"
             /\ responses[1].body.v.t = "obj") =>
              result.exc = "PluggedInError"
    /\ (UploadAccepted /\ Len(requests) = 1) => result.kind = "created"

\* The document doc2 was created and then fetched.
C25_Witness ==
  /\ call.op = "upload_document"
  /\ Len(requests) = 2
  /\ requests[1].path = "/api/documents/ai"
  /\ requests[2].path = "/api/documents/doc2"
  /\ result.kind = "return"

====
